---------------------------- MODULE Spec2Model ----------------------------
(***************************************************************************)
(* A model of gencolormap: the palette drivers of colormap.cpp (the        *)
(* per-entry loops, the clamp-and-round to 8 bit, the clip counter, the    *)
(* in-place copies of the diverging PL maps) and the option handling of    *)
(* cmdline.cpp.                                                            *)
(*                                                                         *)
(* Numbers.  A C float that the code obtains by one correctly rounded      *)
(* division of small integers is kept exactly, as a dyadic <<m, e>> that   *)
(* stands for m / 2^e (IEEE-754 binary32, round to nearest even).  Values  *)
(* that go through pow, sqrt, sin or cos are kept in fixed point (the unit *)
(* is stated at each definition) with roundings that are monotone.  The    *)
(* colour-space conversion chain LUV/LCH/LAB -> XYZ -> RGB -> sRGB is not  *)
(* computed: the sRGB triple an entry has before float_to_uchar is drawn   *)
(* from SrgbSamples, so every property checked of the loops holds for      *)
(* whatever triple the conversion produces.                                *)
(***************************************************************************)
EXTENDS Integers, Sequences, FiniteSets, TLC

\* ------------------------------------------------------------------ bounds
\* largest count n a driver is called with
MaxN == 4
\* steps per 1/255 in which a pre-clamp sRGB channel is sampled (x = q / (255 * Res))
Res == 4
\* most options one command line carries
MaxOpts == 2

\* --------------------------------------------------------- generic helpers
Max(a, b) == IF a >= b THEN a ELSE b
Min(a, b) == IF a <= b THEN a ELSE b
Abs(a) == IF a >= 0 THEN a ELSE -a

\* std::round on q / d (d > 0): to nearest, halves away from zero
RoundDiv(q, d) ==
    IF q >= 0 THEN (2 * q + d) \div (2 * d) ELSE -((2 * (-q) + d) \div (2 * d))

RECURSIVE ISqrtFrom(_, _, _)
ISqrtFrom(x, lo, hi) ==
    IF lo >= hi THEN lo
    ELSE LET mid == (lo + hi + 1) \div 2
         IN IF mid * mid <= x THEN ISqrtFrom(x, mid, hi) ELSE ISqrtFrom(x, lo, mid - 1)
\* std::sqrt on fixed point: floor of the root (x < 2^30)
ISqrt(x) == ISqrtFrom(x, 0, 32767)

\* ------------------------------------------------- binary32, kept exactly
RECURSIVE LongDiv(_, _, _, _)
\* binary long division: from the quotient q and the remainder r < d of a
\* over d, one more quotient bit per step until q has 24 bits; e counts the bits
LongDiv(q, r, d, e) ==
    IF q >= 2^23 THEN <<q, r, e>>
    ELSE IF 2 * r >= d THEN LongDiv(2 * q + 1, 2 * r - d, d, e + 1)
    ELSE LongDiv(2 * q, 2 * r, d, e + 1)

\* the float a / d of two positive integers below 2^26 with a < 2^24 * d,
\* correctly rounded (to nearest, ties to even)
fdiv(a, d) ==
    LET x == LongDiv(a \div d, a % d, d, 0)
        q == x[1]
        r == x[2]
        m == IF 2 * r > d \/ (2 * r = d /\ q % 2 = 1) THEN q + 1 ELSE q
    IN <<m, x[3]>>

RECURSIVE Spacing(_, _)
\* the distance of neighbouring floats at the integer k >= 0
Spacing(k, u) == IF k < 2^24 * u THEN u ELSE Spacing(k, 2 * u)
\* (float)k for an int k >= 0: to 24 significant bits, ties to even
int_to_float(k) ==
    LET u == Spacing(k, 1)
        q == k \div u
        r == k % u
    IN IF 2 * r > u \/ (2 * r = u /\ q % 2 = 1) THEN (q + 1) * u ELSE q * u
\* twice the float i + 0.5f: exact below 2^23, a tie between two integers
\* from there to 2^24, plain i beyond
twice_plus_half(ii) ==
    LET f == int_to_float(ii)
    IN IF f < 2^23 THEN 2 * f + 1
       ELSE IF f < 2^24 THEN (IF f % 2 = 0 THEN 2 * f ELSE 2 * (f + 1))
       ELSE 2 * f

\* comparison and arithmetic of dyadics (all exact)
DyAlign(x, y) ==
    LET e == Max(x[2], y[2])
    IN <<x[1] * 2^(e - x[2]), y[1] * 2^(e - y[2]), e>>
DyEq(x, y) == LET a == DyAlign(x, y) IN a[1] = a[2]
DyLess(x, y) == LET a == DyAlign(x, y) IN a[1] < a[2]
DyLeq(x, y) == LET a == DyAlign(x, y) IN a[1] <= a[2]
\* |x - y| as a dyadic
DyDist(x, y) == LET a == DyAlign(x, y) IN <<Abs(a[1] - a[2]), a[3]>>
DyZero == <<0, 0>>
DyOne == <<1, 0>>
\* 2.0f * x: exact in binary32
DyTwice(x) == IF x[2] > 0 THEN <<x[1], x[2] - 1>> ELSE <<2 * x[1], 0>>
\* 1.0f - x for 1/2 <= x <= 1: exact in binary32 (Sterbenz)
DyOneMinus(x) == <<2^(x[2]) - x[1], x[2]>>
\* x - 1.0f for 1 <= x <= 2: exact in binary32
DyMinusOne(x) == <<x[1] - 2^(x[2]), x[2]>>
\* a dyadic in [0, 2] as fixed point with unit 1/10000 (floor)
DyToFx(x) ==
    IF x[2] <= 14 THEN (x[1] * 2^(14 - x[2]) * 10000) \div 2^14
    ELSE ((x[1] \div 2^(x[2] - 14)) * 10000) \div 2^14

\* the same dyadic with the smallest exponent
DyReduce(x) ==
    LET k == CHOOSE s \in 0..Min(x[2], 30) :
                 /\ x[1] % 2^s = 0
                 /\ s = Min(x[2], 30) \/ x[1] % 2^(s + 1) # 0
    IN <<x[1] \div 2^k, x[2] - k>>
\* an exact result (|mantissa| < 2^31) rounded to binary32
fround(x) ==
    DyReduce(<<IF x[1] >= 0 THEN int_to_float(x[1]) ELSE -int_to_float(-x[1]), x[2]>>)
\* the float x # 0 with a mantissa of 24 bits
fnorm(x) ==
    LET k == CHOOSE d \in 0..23 : Abs(x[1]) * 2^d >= 2^23 /\ Abs(x[1]) * 2^d < 2^24
    IN <<x[1] * 2^k, x[2] + k>>
\* big + tiny for normalised floats at least 6 binary places apart: the
\* sum in units of 1/64 of the last place of big, the bits of tiny below
\* that kept as one sticky bit
fadd_far(big, tiny) ==
    LET shift == tiny[2] - big[2] - 5
        whole == IF shift > 30 THEN 0 ELSE Abs(tiny[1]) \div 2^shift
        sticky == IF shift > 30 \/ Abs(tiny[1]) % 2^shift # 0 THEN 1 ELSE 0
        sign == IF (big[1] < 0) = (tiny[1] < 0) THEN 1 ELSE -1
        sum == 2 * (32 * Abs(big[1]) + sign * whole) + sign * sticky
    IN fround(<<IF big[1] < 0 THEN -sum ELSE sum, big[2] + 6>>)
\* the sum of two normalised floats
fadd_normal(x, y) ==
    IF x[2] - y[2] > 5 THEN fadd_far(y, x)
    ELSE IF y[2] - x[2] > 5 THEN fadd_far(x, y)
    ELSE IF x[2] >= y[2] THEN fround(<<x[1] + y[1] * 2^(x[2] - y[2]), x[2]>>)
    ELSE fround(<<x[1] * 2^(y[2] - x[2]) + y[1], y[2]>>)
\* x + y and x - y in binary32
fadd(x, y) ==
    IF x[1] = 0 THEN DyReduce(y)
    ELSE IF y[1] = 0 THEN DyReduce(x)
    ELSE fadd_normal(fnorm(x), fnorm(y))
fsub(x, y) == fadd(x, <<-y[1], y[2]>>)
\* x < y and x <= y for floats: the sign of x - y is exact
fless(x, y) == fsub(x, y)[1] < 0
fleq(x, y) == fsub(x, y)[1] <= 0
\* the 48-bit product of two mantissas from their 12-bit halves, as
\* <<hi, rem>> with a * c = hi * 2^24 + rem
fmul_parts(a, c) ==
    LET mid == (a \div 4096) * (c % 4096) + (a % 4096) * (c \div 4096)
        rest == (mid % 4096) * 4096 + (a % 4096) * (c % 4096)
    IN <<(a \div 4096) * (c \div 4096) + mid \div 4096 + rest \div 2^24, rest % 2^24>>
\* the bits the high part hi > 0 is short of 24
fmul_shift(hi) ==
    IF hi >= 2^23 THEN 0
    ELSE CHOOSE k \in 1..23 : hi * 2^k >= 2^23 /\ hi * 2^(k - 1) < 2^23
\* the product rounded to 24 bits (to nearest, ties to even)
fmul_round(hi, rem, sh, ee, sign) ==
    LET cut == 2^(24 - sh)
        mant == hi * 2^sh + rem \div cut
        m == IF 2 * (rem % cut) > cut \/ (2 * (rem % cut) = cut /\ mant % 2 = 1)
             THEN mant + 1 ELSE mant
    IN IF hi = 0 THEN DyReduce(<<sign * rem, ee>>)
       ELSE IF ee >= 24 - sh THEN DyReduce(<<sign * m, ee - (24 - sh)>>)
       ELSE <<sign * m * 2^(24 - sh - ee), 0>>
fmul_reduced(x, y, p) ==
    fmul_round(p[1], p[2], fmul_shift(p[1]), x[2] + y[2],
               IF (x[1] < 0) = (y[1] < 0) THEN 1 ELSE -1)
\* x * y in binary32
fmul(x, y) ==
    fmul_reduced(DyReduce(x), DyReduce(y),
                 fmul_parts(Abs(DyReduce(x)[1]), Abs(DyReduce(y)[1])))
\* x / y in binary32 for x >= 0 and y > 0
fquot(x, y) ==
    LET a == DyReduce(x)
        c == DyReduce(y)
        q == fdiv(a[1], c[1])
        ee == q[2] + a[2] - c[2]
    IN IF a[1] = 0 THEN DyZero
       ELSE IF ee >= 0 THEN DyReduce(<<q[1], ee>>) ELSE <<q[1] * 2^(-ee), 0>>
\* the float literal k / per of the source, per a power of ten
flit(k, per) ==
    IF k = 0 THEN DyZero
    ELSE IF k > 0 THEN DyReduce(fdiv(k, per))
    ELSE LET f == DyReduce(fdiv(-k, per)) IN <<-f[1], f[2]>>
\* a float x >= 0 converted to int
float_to_int(x) == x[1] \div 2^(x[2])
RECURSIVE SqrtStep(_, _, _, _)
\* the square root bit by bit: the next pair of bits of mn (pairs below the
\* last are zero) joins the remainder, and the root gains one bit; after the
\* pair at -12 the root has 25 bits
SqrtStep(mn, at, root, rem) ==
    IF at < -12 THEN <<root, rem>>
    ELSE IF 4 * rem + (IF at >= 0 THEN (mn \div 4^at) % 4 ELSE 0) >= 4 * root + 1
    THEN SqrtStep(mn, at - 1, 2 * root + 1,
                  4 * rem + (IF at >= 0 THEN (mn \div 4^at) % 4 ELSE 0) - (4 * root + 1))
    ELSE SqrtStep(mn, at - 1, 2 * root,
                  4 * rem + (IF at >= 0 THEN (mn \div 4^at) % 4 ELSE 0))
\* the 25-bit root r and its remainder rounded to 24 bits, at exponent e
fsqrt_round(r, e) ==
    IF r[1] % 2 = 1 /\ (r[2] > 0 \/ (r[1] \div 2) % 2 = 1)
    THEN DyReduce(<<r[1] \div 2 + 1, e>>)
    ELSE DyReduce(<<r[1] \div 2, e>>)
\* the root of a normalised float: its mantissa is doubled to an even
\* exponent
fsqrt_normal(x) ==
    IF x[2] % 2 = 0
    THEN fsqrt_round(SqrtStep(4 * x[1], 12, 0, 0), (x[2] + 26) \div 2 - 1)
    ELSE fsqrt_round(SqrtStep(2 * x[1], 12, 0, 0), (x[2] + 25) \div 2 - 1)
\* std::sqrt(x) in binary32 for x >= 0
fsqrt(x) == IF x[1] = 0 THEN DyZero ELSE fsqrt_normal(fnorm(x))

\* ----------------------------------------------------- clamp and round
\* A pre-clamp sRGB channel x is <<"fin", q>> for x = q / (255 * Res), or
\* <<"nan", 0>> for a NaN, which luv_to_xyz yields at lightness 0 (0/0).
VARIABLES
    nanConv     \* what this build's float -> int conversion makes of a NaN
                \* (undefined in C++): "INT_MIN", "0" or "INT_MAX"

IsNaN(x) == x[1] = "nan"
Fin(q) == <<"fin", q>>
NaN == <<"nan", 0>>
\* the int v of float_to_uchar before the range test (finite x)
RoundedByte(x) == RoundDiv(x[2], Res)
\* x < 0 or x > 1 for the float x
OutsideUnit(x) == ~IsNaN(x) /\ (x[2] < 0 \/ x[2] > 255 * Res)

\* the int that `int v = std::round(x * 255.0f)` holds
rounded_int(x) ==
    IF IsNaN(x)
    THEN (CASE nanConv = "INT_MIN" -> -(2^30) - 2^30
            [] nanConv = "INT_MAX" -> (2^30 - 1) + 2^30
            [] OTHER -> 0)
    ELSE RoundedByte(x)

\* float_to_uchar with the mutation "clamp the float, then round"
float_to_uchar_preclamp(x) ==
    IF IsNaN(x) THEN [v |-> 0, clipped |-> FALSE]
    ELSE IF x[2] < 0 THEN [v |-> 0, clipped |-> TRUE]
    ELSE IF x[2] > 255 * Res THEN [v |-> 255, clipped |-> TRUE]
    ELSE [v |-> RoundedByte(x), clipped |-> FALSE]

\* float_to_uchar(x, &clipped): the byte and the flag it reports
float_to_uchar(x) ==
    LET v == rounded_int(x)
    IN IF v < 0 THEN [v |-> 0, clipped |-> TRUE]
       ELSE IF v > 255 THEN [v |-> 255, clipped |-> TRUE]
       ELSE [v |-> v, clipped |-> FALSE]

\* xyz_to_colormap with the mutation "return clipped[0]"
xyz_to_colormap_first_only(srgb) ==
    LET r == float_to_uchar(srgb[1])
        g == float_to_uchar(srgb[2])
        b == float_to_uchar(srgb[3])
    IN [bytes |-> <<r.v, g.v, b.v>>,
        flags |-> <<r.clipped, g.clipped, b.clipped>>,
        ret |-> r.clipped]

\* xyz_to_colormap, from the sRGB triple on: three bytes, and whether any
\* channel was clamped
xyz_to_colormap(srgb) ==
    LET r == float_to_uchar(srgb[1])
        g == float_to_uchar(srgb[2])
        b == float_to_uchar(srgb[3])
    IN [bytes |-> <<r.v, g.v, b.v>>,
        flags |-> <<r.clipped, g.clipped, b.clipped>>,
        ret |-> r.clipped \/ g.clipped \/ b.clipped]

\* CubeHelix and McNames call float_to_uchar themselves: clipped_[0..2]
direct_to_colormap(srgb) ==
    LET r == float_to_uchar(srgb[1])
        g == float_to_uchar(srgb[2])
        b == float_to_uchar(srgb[3])
    IN [bytes |-> <<r.v, g.v, b.v>>,
        flags |-> <<r.clipped, g.clipped, b.clipped>>,
        ret |-> r.clipped \/ g.clipped \/ b.clipped]

\* the sRGB triples an entry may have before the clamp
SrgbSamples ==
    { <<Fin(0), Fin(128 * Res), Fin(255 * Res)>>,          \* inside [0,1]
      <<Fin(-1), Fin(255 * Res + 1), Fin(100 * Res)>>,     \* outside, rounds inside
      <<Fin(10 * Res), Fin(-Res), Fin(20 * Res)>>,         \* one channel clamped
      <<Fin(300 * Res), Fin(-5 * Res), Fin(256 * Res)>>,   \* three channels clamped
      <<NaN, NaN, NaN>> }

\* ------------------------------------------- Brewer-like maps: lightness
\* Lightness L is in units of 1/100, parameters in [0,1] in percent,
\* curve parameters t and T in units of 1/10000.

\* a / b to nearest for either sign of a and b (b # 0)
SDiv(a, b) == IF b > 0 THEN RoundDiv(a, b) ELSE RoundDiv(-a, -b)

RECURSIVE ExpSeries(_, _, _, _)
\* sum of the terms y^k / k! of exp(y), k up to 14, in units of 1/10000
ExpSeries(y, k, term, acc) ==
    IF k > 14 \/ term = 0 THEN acc
    ELSE LET next == (term * y) \div (k * 10000)
         IN ExpSeries(y, k + 1, next, acc + next)

\* std::pow(0.2f, x) = exp(-x ln 5) for 0 <= x <= 1, x and result in 1/10000;
\* non-increasing in x
pow02(x) ==
    LET y == (x * 16094) \div 10000
    IN (10000 * 10000) \div ExpSeries(y, 1, 10000, 10000)

BrewerSequentialDefaultContrast == 88
BrewerSequentialDefaultSaturation == 60
BrewerSequentialDefaultBrightness == 75
BrewerSequentialDefaultWarmth == 15
BrewerSequentialDefaultContrastForSmallN(nn) == Min(88, 34 + 6 * nn)

\* get_bright_point().l: the LUV lightness of sRGB yellow (97.14)
BrightPointL == 9714
\* most_saturated_in_srgb(hue).l for the default hue of 240 degrees (68.70)
\* and for hue 0 (54.44)
MostSaturatedL == {6870, 5444}

\* get_color_points, lightness components: <<p0.l, p1.l, p2.l, q0.l, q1.l, q2.l>>
get_color_points(p1l, saturation, warmth) ==
    LET p0l == 0
        p2l == ((100 - warmth) * 10000 + warmth * BrightPointL) \div 100
        q0l == ((100 - saturation) * p0l + saturation * p1l) \div 100
        q2l == ((100 - saturation) * p2l + saturation * p1l) \div 100
        q1l == (q0l + q2l) \div 2
    IN [p0 |-> p0l, p1 |-> p1l, p2 |-> p2l, q0 |-> q0l, q1 |-> q1l, q2 |-> q2l]

\* b(b0, b1, b2, t), lightness component
b(b0, b1, b2, t) ==
    LET a == ((10000 - t) * (10000 - t)) \div 10000
        bb == (2 * (10000 - t) * t) \div 10000
        c == (t * t) \div 10000
    IN SDiv(a * b0 + bb * b1 + c * b2, 10000)

\* inv_b(b0, b1, b2, v); the code divides by b0 - 2 b1 + b2 unguarded
inv_b(b0, b1, b2, v) ==
    SDiv((b0 - b1 + ISqrt(Max(b1 * b1 - b0 * b2 + (b0 - 2 * b1 + b2) * v, 0))) * 10000,
         b0 - 2 * b1 + b2)

\* the ramp exponent (1 - contrast) * brightness + t * contrast, in 1/10000
ramp_exponent(t, contrast, brightness) ==
    (100 - contrast) * brightness + (t * contrast) \div 100

\* the ramp with the mutation "lightness falls with t"
target_lightness_falling(t, contrast, brightness) ==
    12500 - (125 * pow02(ramp_exponent(10000 - t, contrast, brightness))) \div 100

\* l = 125 - 125 * pow(0.2, exponent) of get_colormap_entry
target_lightness(t, contrast, brightness) ==
    12500 - (125 * pow02(ramp_exponent(t, contrast, brightness))) \div 100

\* get_colormap_entry, lightness component of the returned point
get_colormap_entry(t, cp, contrast, brightness) ==
    LET l == target_lightness(t, contrast, brightness)
        T == IF l <= cp.q1
             THEN inv_b(cp.p0, cp.q0, cp.q1, l) \div 2
             ELSE inv_b(cp.q1, cp.q2, cp.p2, l) \div 2 + 5000
    IN IF T <= 5000 THEN b(cp.p0, cp.q0, cp.q1, 2 * T)
       ELSE b(cp.q1, cp.q2, cp.p2, 2 * (T - 5000))

\* -------------------------------------------------------------- Moreland
\* An MSH triple is <<m, s, h>>: m in units of 1/100, s and h in 1/1000 rad.
pi == 3142
MorelandDefaultMsh0 == <<8007, 1080, 503>>      \* lab_to_msh(...) of (180,4,38)
MorelandDefaultMsh1 == <<7999, 1080, -1099>>    \* lab_to_msh(...) of (59,76,192)
\* the endpoint pairs <<omsh0, omsh1>> the model runs Moreland with: the
\* defaults, two reds 7 degrees apart, a grey and a red, twice the same red
MshSamples ==
    { <<MorelandDefaultMsh0, MorelandDefaultMsh1>>,
      <<MorelandDefaultMsh0, <<8880, 1063, 622>>>>,
      <<<<5359, 0, 0>>, MorelandDefaultMsh0>>,
      <<MorelandDefaultMsh0, MorelandDefaultMsh0>> }

hue_diff(h0, h1) ==
    LET t == Abs(h1 - h0) IN IF t < pi THEN t ELSE 2 * pi - t

\* std::sin(s) for 0 <= s <= pi / 2 (an MSH saturation angle), s and result
\* in 1/1000
sin(s) ==
    LET s2 == (s * s) \div 1000
        s3 == (s2 * s) \div 1000
        s5 == (s3 * s2) \div 1000
        s7 == (s5 * s2) \div 1000
        s9 == (s7 * s2) \div 1000
    IN s - s3 \div 6 + s5 \div 120 - s7 \div 5040 + s9 \div 362880

adjust_hue(msh, unsaturated_m) ==
    IF msh[1] >= unsaturated_m - 10 THEN msh[3]
    ELSE LET root == ISqrt(unsaturated_m * unsaturated_m - msh[1] * msh[1])
             hue_spin == SDiv(SDiv(msh[2] * root * 10, msh[1]) * 100, sin(msh[2]))
         IN IF 3 * msh[3] > -pi THEN msh[3] + hue_spin ELSE msh[3] - hue_spin

\* (1 - t) * msh0 + t * msh1, t in 1/10000
mix_msh(t, msh0, msh1) ==
    [k \in 1..3 |-> SDiv((10000 - t) * msh0[k] + t * msh1[k], 10000)]

\* Moreland, the interpolation parameter with the mutation "t = i / (n - 1)"
moreland_t_inclusive(ii, count) == IF ii = 0 THEN DyZero ELSE fdiv(ii, count - 1)

\* float t = (i + 0.5f) / n with the mutation "t = (i + 1.0f) / n"
cell_center_upper(ii, count) ==
    fdiv(2 * int_to_float(ii + 1), 2 * int_to_float(count))
\* float t = (i + 0.5f) / n: i and n are converted to float, the sum and the
\* quotient are rounded
cell_center(ii, count) == fdiv(twice_plus_half(ii), 2 * int_to_float(count))

\* the t of Moreland's loop
moreland_t(ii, count) == cell_center(ii, count)

DyHalf == <<1, 1>>

\* one iteration of Moreland's loop, up to the MSH point handed to the
\* conversion: the parameter, the two ends interpolated between, the point
moreland_entry(ii, count, omsh0, omsh1) ==
    LET place_white == omsh0[2] >= 50 /\ omsh1[2] >= 50
                       /\ 3 * hue_diff(omsh0[3], omsh1[3]) > pi
        mmid == Max(Max(omsh0[1], omsh1[1]), 8800)
        t0 == moreland_t(ii, count)
        lower == DyLess(t0, DyHalf)
        t == IF ~place_white THEN t0
             ELSE IF lower THEN DyTwice(t0)
             ELSE DyMinusOne(DyTwice(t0))
        a0 == IF place_white /\ ~lower THEN <<mmid, 0, 0>> ELSE omsh0
        a1 == IF place_white /\ lower THEN <<mmid, 0, 0>> ELSE omsh1
        msh0 == IF a0[2] < 50 /\ a1[2] >= 50
                THEN <<a0[1], a0[2], adjust_hue(a1, a0[1])>> ELSE a0
        msh1 == IF a0[2] >= 50 /\ a1[2] < 50
                THEN <<a1[1], a1[2], adjust_hue(a0, a1[1])>> ELSE a1
    IN [t |-> t0, u |-> t, white |-> place_white,
        msh0 |-> msh0, msh1 |-> msh1,
        msh |-> mix_msh(DyToFx(t), msh0, msh1)]

\* ---------------------------------------------- most_saturated_in_srgb
\* std::sin and std::cos for 0 <= x <= 2 pi, x and result in 1/1000
std_sin(x) ==
    IF x <= pi \div 2 THEN sin(x)
    ELSE IF x <= pi THEN sin(pi - x)
    ELSE IF x <= pi + pi \div 2 THEN -sin(x - pi)
    ELSE -sin(Max(2 * pi - x, 0))
std_cos(x) == IF x + pi \div 2 <= 2 * pi THEN std_sin(x + pi \div 2)
              ELSE std_sin(x + pi \div 2 - 2 * pi)

\* static float h[]: the LCH hues of the cube corners R, Y, G, C, B, M as the
\* conversion chain yields them (12.17, 85.88, 127.72, 192.19, 265.87 and
\* 307.71 degrees)
CornerHues == <<212, 1499, 2229, 3354, 4640, 5371>>
\* the corners themselves, in the order of h[]
CubeCorners == << <<1, 0, 0>>, <<1, 1, 0>>, <<0, 1, 0>>, <<0, 1, 1>>, <<0, 0, 1>>, <<1, 0, 1>> >>

\* the branch of the if-chain a hue takes, 1..7
sector_branch(hue) ==
    IF hue < CornerHues[1] THEN 1
    ELSE IF hue < CornerHues[2] THEN 2
    ELSE IF hue < CornerHues[3] THEN 3
    ELSE IF hue < CornerHues[4] THEN 4
    ELSE IF hue < CornerHues[5] THEN 5
    ELSE IF hue < CornerHues[6] THEN 6
    ELSE 7
\* the assignments with the mutation "j and k exchanged in the third branch"
sector_assignment_swapped(br) ==
    CASE br = 1 -> [i |-> 2, j |-> 1, k |-> 0]
      [] br = 2 -> [i |-> 1, j |-> 2, k |-> 0]
      [] br = 3 -> [i |-> 0, j |-> 1, k |-> 2]
      [] br = 4 -> [i |-> 2, j |-> 0, k |-> 1]
      [] br = 5 -> [i |-> 1, j |-> 0, k |-> 2]
      [] br = 6 -> [i |-> 0, j |-> 1, k |-> 2]
      [] OTHER -> [i |-> 2, j |-> 1, k |-> 0]
\* i, j, k as the branches assign them: i is solved for, srgb[j] = 0, srgb[k] = 1
sector_assignment(br) ==
    CASE br = 1 -> [i |-> 2, j |-> 1, k |-> 0]
      [] br = 2 -> [i |-> 1, j |-> 2, k |-> 0]
      [] br = 3 -> [i |-> 0, j |-> 2, k |-> 1]
      [] br = 4 -> [i |-> 2, j |-> 0, k |-> 1]
      [] br = 5 -> [i |-> 1, j |-> 0, k |-> 2]
      [] br = 6 -> [i |-> 0, j |-> 1, k |-> 2]
      [] OTHER -> [i |-> 2, j |-> 1, k |-> 0]

\* float M[3][3], in 1/1000; d65_u_prime and d65_v_prime in 1/10000
MatrixM == << <<412, 358, 180>>, <<213, 715, 72>>, <<19, 119, 951>> >>
d65_u_prime == 1978
d65_v_prime == 4683
\* T * (M[0][c] + 15 M[1][c] + 3 M[2][c]) - (4 alpha M[0][c] + 9 beta M[1][c])
\* for the 0-based column c, in units of 1/1000000
solve_term(alpha, beta, c) ==
    LET T == (alpha * d65_u_prime + beta * d65_v_prime) \div 10000
    IN T * (MatrixM[1][c + 1] + 15 * MatrixM[2][c + 1] + 3 * MatrixM[3][c + 1])
         - (4 * alpha * MatrixM[1][c + 1] + 9 * beta * MatrixM[2][c + 1])

\* -q0 / q1 as the float division gives it: a number in 1/1000, an infinity,
\* or NaN for 0 / 0
neg_ratio(q0, q1) ==
    IF q1 = 0 THEN (IF q0 = 0 THEN NaN ELSE IF q0 < 0 THEN <<"inf", 1>> ELSE <<"inf", -1>>)
    ELSE LET neg == (q0 > 0) # (q1 < 0)
             sgn == IF neg THEN -1 ELSE 1
         IN IF Abs(q0) >= 2 * Abs(q1) THEN Fin(sgn * 2000)
            ELSE Fin(sgn * (10 * ((Abs(q0) * 100) \div Abs(q1))
                             + (((Abs(q0) * 100) % Abs(q1)) * 10) \div Abs(q1)))
\* std::max(x, lo) and std::min(x, hi) with a float first argument: a NaN
\* compares false and is returned
std_max(x, lo) ==
    IF IsNaN(x) THEN x
    ELSE IF x[1] = "inf" THEN (IF x[2] < 0 THEN Fin(lo) ELSE x)
    ELSE IF x[2] < lo THEN Fin(lo) ELSE x
std_min(x, hi) ==
    IF IsNaN(x) THEN x
    ELSE IF x[1] = "inf" THEN (IF x[2] > 0 THEN Fin(hi) ELSE x)
    ELSE IF hi < x[2] THEN Fin(hi) ELSE x
\* clamp(x, lo, hi) = std::min(std::max(x, lo), hi)
clamp(x, lo, hi) == std_min(std_max(x, lo), hi)

RECURSIVE FxPower(_, _, _)
\* y^k for y in 1/1000, the result in 1/1000000 (floor at every product)
FxPower(y, k, acc) == IF k = 0 THEN acc ELSE FxPower(y, k - 1, (acc * y) \div 1000)
RECURSIVE RootSearch(_, _, _)
\* the largest y in lo..hi with y^12 <= x^5, i.e. x^(1/2.4) rounded down
RootSearch(x, lo, hi) ==
    IF lo >= hi THEN lo
    ELSE LET mid == (lo + hi + 1) \div 2
         IN IF FxPower(mid, 12, 1000000) <= FxPower(x, 5, 1000000)
            THEN RootSearch(x, mid, hi) ELSE RootSearch(x, lo, mid - 1)
\* rgb_to_srgb_helper with the mutation "1.055f * pow(x, 1 / 2.4f)"
rgb_to_srgb_helper_no_offset(x) ==
    IF IsNaN(x) THEN x
    ELSE IF x[2] <= 3 THEN Fin((1292 * x[2]) \div 100)
    ELSE Fin((1055 * RootSearch(x[2], 0, 1000)) \div 1000)
\* rgb_to_srgb_helper on a linear component in 1/1000
rgb_to_srgb_helper(x) ==
    IF IsNaN(x) THEN x
    ELSE IF x[2] <= 3 THEN Fin((1292 * x[2]) \div 100)
    ELSE Fin((1055 * RootSearch(x[2], 0, 1000)) \div 1000 - 55)

\* most_saturated_in_srgb up to the sRGB triple it converts back to LUV:
\* the branch taken, i, j, k, q0, q1 and the triple (components in 1/1000)
most_saturated_in_srgb(lch_hue) ==
    LET br == sector_branch(lch_hue)
        a == sector_assignment(br)
        alpha == -std_sin(lch_hue)
        beta == std_cos(lch_hue)
        q0 == solve_term(alpha, beta, a.k)
        q1 == solve_term(alpha, beta, a.i)
        free == rgb_to_srgb_helper(clamp(neg_ratio(q0, q1), 0, 1000))
    IN [branch |-> br, i |-> a.i, j |-> a.j, k |-> a.k, q0 |-> q0, q1 |-> q1,
        srgb |-> [c \in 0..2 |-> IF c = a.j THEN Fin(0)
                                 ELSE IF c = a.k THEN Fin(1000) ELSE free]]

\* ------------------------------------------------ hues of the LCH maps
\* Hues and divergences are in units of 1/1000 rad, lightness and chroma in
\* units of 1/100, the parameters lightness, saturation and the ranges in
\* percent, rotations in hundredths of a turn.
twopi == 6283
\* the hues and divergences a caller passes: 0, 60, 120, 240 and 360 degrees
HueSamples == {0, 2094, 4189, twopi}
DivergenceSamples == {1047, 4189, twopi}
PUQualitativeHueDefaultLightness == 55
PUQualitativeHueDefaultSaturation == 22

PUSequentialRainbowDefaultRotations == -150
\* t * x for the float t and the fixed-point x >= 0 (floor)
DyTimes(t, x) == (DyToFx(t) * x) \div 10000
\* luv_to_lch(get_bright_point()): the hue (85.88 degrees) and the saturation
\* (1.10, in percent) of sRGB yellow
BrightPointHue == 1499
BrightPointSaturation == 110

\* std::fmod(x, y) for y > 0: the remainder has the sign of x
fmod(x, y) == IF x >= 0 THEN x % y ELSE -((-x) % y)
\* mix_hue(alpha, h0, h1), alpha in percent
mix_hue(alpha, h0, h1) ==
    LET M == fmod(pi + h1 - h0, twopi) - pi
    IN fmod(h0 + SDiv(alpha * M, 100), twopi)
\* BrewerDiverging's second hue with the mutation "no wrap"
brewer_diverging_hue1_unwrapped(hue, divergence) == hue + divergence
\* float hue1 = hue + divergence; if (hue1 >= twopi) hue1 -= twopi;
brewer_diverging_hue1(hue, divergence) ==
    IF hue + divergence >= twopi THEN hue + divergence - twopi ELSE hue + divergence
\* the hues get_color_points hands to lch_to_luv: that of p0 and that of p2
color_point_hues(hue, warmth) == {hue, mix_hue(warmth, hue, BrightPointHue)}
\* the hues a driver hands to lch_to_luv before its loop
hues_before_loop(d, a) ==
    CASE d = "BrewerSequential" -> color_point_hues(a.hue, a.warmth)
      [] d = "BrewerDiverging" ->
           color_point_hues(a.hue, a.warmth)
             \cup color_point_hues(brewer_diverging_hue1(a.hue, a.divergence), a.warmth)
      [] OTHER -> {}
\* BrewerQualitative: ch = fmod(twopi * (eps + t * r), twopi), eps and r being
\* hue and divergence over twopi
brewer_qualitative_hue(t, a) == fmod(a.hue + DyTimes(t, a.divergence), twopi)
\* PLSequentialRainbow: h = hue + t * rotations * twopi
rainbow_hue(t, a) ==
    a.hue + SDiv(DyToFx(t) * SDiv(a.rotations * twopi, 100), 10000)

\* s_max(l, h) for the hue of the bright point, whose most saturated colour
\* is the bright point itself; l in 1/100, the result in percent
s_max(l) ==
    LET pendl == IF l > BrightPointL THEN 10000 ELSE 0
    IN SDiv((pendl - l) * BrightPointSaturation, pendl - BrightPointL)
\* BrewerDiverging's test for the middle entry with the mutation "i == n / 2"
is_middle_any_parity(ii, count) == ii = count \div 2
\* n % 2 == 1 && i == n / 2
is_middle(ii, count) == count % 2 = 1 /\ ii = count \div 2

\* --------------------------------------------------- PLSequentialMultiHue
\* Positions and t are in units of 1/10000.
\* float t = i / (n - 1.0f), n >= 2
multi_hue_t(ii, count) == IF ii = 0 THEN DyZero ELSE fdiv(ii, count - 1)
sqr(x) == x * x
\* lch_chroma(l, s) = s * l, s in percent
lch_chroma(l, s) == (s * l) \div 100
\* lch_distance of two LCH triples <<l, c, h>>
lch_distance(lch0, lch1) ==
    LET mixed == (SDiv(lch0[2] * lch1[2], 100) * std_cos(Abs(lch0[3] - lch1[3]))) \div 10
    IN ISqrt(Max(0, sqr(lch0[1] - lch1[1]) + sqr(lch0[2]) + sqr(lch1[2]) - 2 * mixed))
\* multi_hue_get(t, hues, hue_values, hue_positions)
multi_hue_get(t, a) ==
    IF a.hues < 1 THEN 0
    ELSE IF a.hues = 1 THEN a.hue_values[1]
    ELSE IF t <= a.hue_positions[1] THEN a.hue_values[1]
    ELSE IF t >= a.hue_positions[a.hues] THEN a.hue_values[a.hues]
    ELSE LET found == {k \in 1..(a.hues - 2) :
                          t >= a.hue_positions[k] /\ t < a.hue_positions[k + 1]}
             k == IF found = {} THEN a.hues - 1
                  ELSE CHOOSE x \in found : \A y \in found : x <= y
             p0 == a.hue_positions[k]
             p1 == a.hue_positions[k + 1]
         IN a.hue_values[k] + SDiv((t - p0) * (a.hue_values[k + 1] - a.hue_values[k]), p1 - p0)
\* multi_hue_compute(t, t0, t1, lch0, lch1, D, ...) for t1 - t0 = 0.5
multi_hue_compute(t, t0, lch0, lch1, D, a) ==
    LET tt == 2 * (t - t0)
        h == multi_hue_get(t, a)
        l == SDiv((10000 - tt) * lch0[1] + tt * lch1[1], 10000)
        tmp0 == Max(0, sqr((tt * D) \div 10000) - sqr(lch0[1] - l)
                         - sqr(lch0[3] - h) \div 100)
        c_0 == lch0[2] + ISqrt(tmp0)
        c_1 == lch0[2] - ISqrt(tmp0)
        tmp1 == Max(0, sqr(((10000 - tt) * D) \div 10000) - sqr(lch1[1] - l)
                         - sqr(lch1[3] - h) \div 100)
        c_2 == lch1[2] + ISqrt(tmp1)
        c_3 == lch1[2] - ISqrt(tmp1)
        linear == SDiv((10000 - tt) * lch0[2] + tt * lch1[2], 10000)
        \* after the first if: <<mindist, c>>
        first == IF c_0 >= 0
                 THEN IF Abs(c_0 - c_2) < Abs(c_0 - c_3)
                      THEN <<Abs(c_0 - c_2), (c_0 + c_2) \div 2>>
                      ELSE <<Abs(c_0 - c_3), (c_0 + c_3) \div 2>>
                 ELSE <<999990, linear>>
        second == IF c_1 >= 0
                  THEN IF Abs(c_1 - c_2) < first[1] /\ Abs(c_1 - c_2) < Abs(c_1 - c_3)
                       THEN <<Abs(c_1 - c_2), (c_1 + c_2) \div 2>>
                       ELSE IF Abs(c_1 - c_3) < first[1]
                       THEN <<Abs(c_1 - c_3), (c_1 + c_3) \div 2>>
                       ELSE first
                  ELSE first
    IN <<l, second[2], h>>
\* the three anchors lch_00, lch_05 and lch_10 of PLSequentialMultiHue
multi_hue_anchors(a) ==
    LET l05 == (a.l0 + a.l1) \div 2
    IN << <<a.l0, lch_chroma(a.l0, a.s0), multi_hue_get(0, a)>>,
          <<l05, lch_chroma(l05, a.s05), multi_hue_get(5000, a)>>,
          <<a.l1, lch_chroma(a.l1, a.s1), multi_hue_get(10000, a)>> >>
\* the LCH triple PLSequentialMultiHue hands to lch_to_colormap for entry ii
multi_hue_lch(ii, count, a) ==
    LET at == multi_hue_anchors(a)
        t == DyToFx(multi_hue_t(ii, count))
    IN IF t <= 5000
       THEN multi_hue_compute(t, 0, at[1], at[2], lch_distance(at[1], at[2]), a)
       ELSE multi_hue_compute(t, 5000, at[2], at[3], lch_distance(at[2], at[3]), a)

\* PLQualitativeHue's scaling with the mutation "divergence *= (n + 1.0f) / n"
scaled_divergence_up(divergence, count) == SDiv(divergence * (count + 1), count)
\* divergence *= (n - 1.0f) / n
scaled_divergence(divergence, count) == SDiv(divergence * (count - 1), count)
\* the LCH triple PLQualitativeHue hands to lch_to_colormap for entry ii
qualitative_hue_lch(ii, count, a) ==
    LET l == Max(1, a.lightness * 100)
        c == (l * a.saturation * 5) \div 100
        d == scaled_divergence(a.divergence, count)
    IN <<l, c, a.hue + DyTimes(cell_center(ii, count), d)>>

\* ------------------------------------------------------ the palette engine
VARIABLES
    pc,         \* "idle", "run" (in a per-entry loop), "copy" (in a mirror
                \* loop of a PLDiverging map), "done" (the driver returned)
    drv,        \* the driver the caller invoked
    n,          \* its count argument; the caller's buffer has 3 * n bytes
    arg,        \* its colour arguments, as far as the model follows them
    sub,        \* the routine whose loop runs: [name, count, base], base
                \* being the byte offset of the colormap pointer it was given
    phase,      \* 0 called directly; inside a PLDiverging map: 1 first
                \* sequential call, 2 mirror loop, 3 second sequential call
    i,          \* the loop variable
    colormap,   \* the caller's buffer: byte index -> 0..255, -1 never written
    ent,        \* per entry of the buffer, how its bytes were computed
    clipped,    \* int clipped of the running sequential routine
    total,      \* int clipped of PLDivergingLightness / PLDivergingSaturation
    ret,        \* the value returned to the caller
    calls,      \* every driver invocation so far: <<[name, count], ...>>
    iters,      \* per-entry loop bodies run so far
    inner,      \* wavelength loop bodies run so far (PLSequentialBlackBody)
    oob         \* a write went outside the caller's buffer

\* the command-line program (cmdline.cpp)
VARIABLES
    cpc,        \* where main is: "parse" (the getopt loop), "parsed",
                \* "defaulted", "generated", or ended: "exit" (returned),
                \* "abort" (uncaught exception), "crash" (signal)
    opt,        \* main's locals that hold the options
    typed,      \* per parameter, what the user typed for it, in the option's
                \* unit (hundredths; angles in hundredths of a degree)
    nopts,      \* options consumed so far
    exitcode,   \* -1 while main runs, then its exit status
    out,        \* what was written to standard output
    call,       \* the driver invocation main made: <<>> or [name, n, buf, args]
    intMul      \* what this build makes of the int overflow in 3 * n
                \* (undefined in C++): "wrap" to 32 bits, or "wide" (the
                \* product is computed in 64 bits)

\* a helper function applied on its own
VARIABLES
    query,      \* the call: [fn, hue, n, i], the arguments the function does
                \* not take being 0; <<>> when no helper is called on its own
    result      \* what it returned: <<>> before the call

SequentialDrivers ==
    { "BrewerSequential", "BrewerDiverging", "BrewerQualitative",
      "PLSequentialLightness", "PLSequentialSaturation", "PLSequentialRainbow",
      "PLSequentialBlackBody", "PLSequentialMultiHue", "PLQualitativeHue",
      "CubeHelix", "Moreland", "McNames" }

\* the arguments a driver is run with
NoArg == [p1l |-> 0, contrast |-> 0, saturation |-> 0, brightness |-> 0,
          warmth |-> 0, omsh0 |-> <<0, 0, 0>>, omsh1 |-> <<0, 0, 0>>,
          hue |-> 0, divergence |-> 0, rotations |-> 0, lightness |-> 0,
          p1l1 |-> 0, ends |-> <<0, 0>>,
          hues |-> 0, hue_values |-> <<>>, hue_positions |-> <<>>,
          l0 |-> 0, s0 |-> 0, l1 |-> 0, s1 |-> 0, s05 |-> 0]
BrewerArgs(nn) ==
    { [NoArg EXCEPT !.p1l = l, !.p1l1 = l, !.contrast = c,
                    !.saturation = BrewerSequentialDefaultSaturation,
                    !.brightness = BrewerSequentialDefaultBrightness,
                    !.warmth = BrewerSequentialDefaultWarmth] :
        l \in MostSaturatedL,
        c \in {BrewerSequentialDefaultContrast,
               BrewerSequentialDefaultContrastForSmallN(nn)} }
MorelandArgs == { [NoArg EXCEPT !.omsh0 = m[1], !.omsh1 = m[2]] : m \in MshSamples }
\* PLSequentialMultiHue with the default hue list, from lightness 20 to 90
MultiHueDefaultArg ==
    [NoArg EXCEPT !.hues = 2, !.hue_values = <<0, 1047>>,
                  !.hue_positions = <<2500, 7500>>,
                  !.l0 = 2000, !.s0 = 50, !.l1 = 9000, !.s1 = 50, !.s05 = 190]
ArgsOf(d, nn) ==
    CASE d \in {"BrewerSequential", "BrewerDiverging"} -> BrewerArgs(nn)
      [] d = "Moreland" -> MorelandArgs
      [] d = "PLSequentialMultiHue" -> {MultiHueDefaultArg}
      [] OTHER -> {NoArg}

\* an entry of the buffer nothing was written to; src says which entry of
\* which map an entry was computed as
NoEntry == [by |-> "", srgb |-> <<>>, flags |-> <<FALSE, FALSE, FALSE>>,
            t |-> DyZero, tt |-> DyZero, ex |-> 0, l |-> 0, pl |-> 0,
            msh |-> <<0, 0, 0>>, lch |-> <<0, 0, 0>>, via |-> "", kind |-> "",
            src |-> <<>>]
\* the hue argument of the call running in phase ph of driver d: of its
\* two sequential calls PLDivergingLightness makes the first with hue +
\* divergence and the second with hue, PLDivergingSaturation the first
\* with hue and the second with hue + divergence
call_hue(d, ph) ==
    IF d = "PLDivergingLightness"
    THEN (IF ph = 1 THEN "hue + divergence" ELSE "hue")
    ELSE IF d = "PLDivergingSaturation"
    THEN (IF ph = 1 THEN "hue" ELSE "hue + divergence")
    ELSE "hue"
\* entry ii of the map of s.count entries that the running routine computes
computed_as(d, ph, s, ii) ==
    [map |-> s.name, count |-> s.count, index |-> ii, hue |-> call_hue(d, ph)]
\* an entry as a routine computed it from the pre-clamp triple srgb
Computed(name, srgb, e) ==
    [NoEntry EXCEPT !.by = name, !.srgb = srgb, !.flags = e.flags]

\* the loop test of every per-entry loop, with the mutation "i <= n"
loop_runs_once_more(ii, count) == ii <= count
\* for (int i = 0; i < n; i++)
loop_continues(ii, count) == ii < count

RECURSIVE wavelengths(_)
\* bodies run by for (int lambda = 360; lambda <= 830; lambda += stepsize)
wavelengths(lambda) == IF lambda <= 830 THEN 1 + wavelengths(lambda + 5) ELSE 0

\* colormap[idx] = v, where the buffer has such a byte
write(cm, idx, v) == IF idx \in DOMAIN cm THEN [cm EXCEPT ![idx] = v] ELSE cm
\* the write is outside the caller's 3 * n bytes
outside(idx) == idx < 0 \/ idx >= 3 * n

engineVars == <<nanConv, pc, drv, n, arg, sub, phase, i, colormap, ent,
                clipped, total, ret, calls, iters, inner, oob>>
cliVars == <<cpc, opt, typed, nopts, exitcode, out, call, intMul>>
fnVars == <<query, result>>

\* the statics of a process and a driver call whose entries run in any order
VARIABLES
    cache,      \* the function-local statics: pb of get_bright_point, ylch
                \* and rs of BrewerQualitative, h of most_saturated_in_srgb
                \* (<<>> until its declaration has been passed), and per
                \* static, how often its initialiser has run
    job,        \* the driver call in progress: <<>> or [name, n, a, clips,
                \* start], start being the statics when its loop started
    pending,    \* the iterations of its loop that have not run yet
    order,      \* the iterations that have, in the order they ran
    late,       \* the statics an iteration of this loop initialised
    palette,    \* the call's buffer: byte index -> what was stored, <<>> if nothing
    nclip,      \* int clipped of the call
    jobs        \* driver calls made in this process so far
procVars == <<cache, job, pending, order, late, palette, nclip, jobs>>

\* a colour map widget of the GUI
VARIABLES
    gui,        \* the widget: <<>> or [w, n, lock, spin, slider, color, list,
                \* pos, button]: its method, the value of _n_spinbox,
                \* _update_lock, per slider/spin box pair the value of the
                \* spin box and the position of the slider, the colours of
                \* Moreland's buttons, the hue list of the multi-hue widget,
                \* its position spin box and the hue of its hue button
    sig,        \* the slot that ran last and the colorMapChanged signals it
                \* emitted, each with the _update_lock of the moment
    changes     \* changes the user has made to the controls
guiVars == <<gui, sig, changes>>
\* what neither the drivers of the palette engine nor main touch

\* two threads of an embedding that make the first use of a static triplet
VARIABLES
    threads     \* <<>> or [static, mem, pc, at, got]: the static they use, its
                \* members l, u/c, v/h in memory, and per thread its position,
                \* the member it is at and the members it has read
thrVars == <<threads>>
sideVars == <<fnVars, procVars, guiVars, thrVars>>
vars == <<engineVars, cliVars, sideVars>>

\* ------------------------------------------- the command line: its data
\* A float local of main is Fin(q) for q / 100, NaN, or, once defaulted, a
\* constant of colormap.hpp kept by its name.
Unset == Fin(-100)                        \* the initializer -1.0f
Omitted == <<"omitted", 0>>
\* ColorMap::<owner>Default<param>, e.g. ColorMap::BrewerSequentialDefaultHue
DefaultConstant(owner, param) == <<"ColorMap", owner, param>>

Types ==
    { "brewer_seq", "brewer_div", "brewer_qual", "puseq_lightness",
      "puseq_saturation", "puseq_rainbow", "puseq_blackbody", "puseq_multihue",
      "pudiv_lightness", "pudiv_saturation", "puqual_hue", "cubehelix",
      "moreland", "mcnames" }
InvalidEnum == "-1"
Formats == {"csv", "json", "ppm"}
\* the float options: the local each case of the switch assigns
FloatOption ==
    [c |-> "contrast", s |-> "saturation", S |-> "saturation_range",
     b |-> "brightness", w |-> "warmth", l |-> "lightness",
     L |-> "lightness_range", r |-> "rotations", T |-> "temperature",
     R |-> "temperature_range", g |-> "gamma", p |-> "periods"]
AngleOption == [h |-> "hue", d |-> "divergence"]
FloatParams == {FloatOption[k] : k \in DOMAIN FloatOption}
                 \cup {AngleOption[k] : k \in DOMAIN AngleOption}

\* what the model's user types
FloatSamples == {Fin(0), Fin(50)}
NegativeSample == Fin(-50)
AngleSamples == {Fin(0), Fin(9000)}
NSamples == {0, 1, 2, 9, 10, 715827883, 1431655766}
HueListSamples == { <<Fin(0)>>, <<Fin(0), Fin(9000)>>, <<Fin(0), Fin(9000), Fin(18000)>> }
PositionListSamples == { <<Fin(0)>>, <<Fin(0), Fin(50)>>, <<Fin(0), Fin(50), Fin(100)>> }
ColorSamples == { <<10, 20, 30>> }

MorelandDefaultColor0 == <<180, 4, 38>>
MorelandDefaultColor1 == <<59, 76, 192>>
PUSequentialMultiHueDefaultHues == 2
PUSequentialMultiHueDefaultHueValues == <<Fin(0), Fin(105)>>
PUSequentialMultiHueDefaultHuePositions == <<Fin(25), Fin(75)>>
BrewerDivergingDefaultContrastForSmallN(nn) == Min(88, 34 + 6 * nn)

\* main's locals as initialized
OptInit ==
    [print_version |-> FALSE, print_help |-> FALSE, format |-> "csv",
     type |-> "brewer_seq", n |-> 256,
     hue |-> Unset, divergence |-> Unset, contrast |-> Unset,
     saturation |-> Unset, saturation_range |-> Unset, brightness |-> Unset,
     warmth |-> Unset, lightness |-> Unset, lightness_range |-> Unset,
     rotations |-> NaN, temperature |-> Unset, temperature_range |-> Unset,
     hue_values |-> <<>>, hue_positions |-> <<>>, gamma |-> Unset,
     have_color0 |-> FALSE, color0 |-> <<>>,
     have_color1 |-> FALSE, color1 |-> <<>>, periods |-> NaN]
TypedInit ==
    [x \in FloatParams \cup {"hue_values", "hue_positions", "color0", "color1"} |->
        IF x \in FloatParams THEN Omitted ELSE <<>>]

\* the engine before any call
EngineIdle ==
    /\ pc = "idle"
    /\ drv = ""
    /\ n = 0
    /\ arg = NoArg
    /\ sub = [name |-> "", count |-> 0, base |-> 0]
    /\ phase = 0
    /\ i = 0
    /\ colormap = [k \in {} |-> -1]
    /\ ent = [k \in {} |-> NoEntry]
    /\ clipped = 0
    /\ total = 0
    /\ ret = -1
    /\ calls = <<>>
    /\ iters = 0
    /\ inner = 0
    /\ oob = FALSE
\* the command-line program at the start of main
CliStart ==
    /\ cpc = "parse"
    /\ opt = OptInit
    /\ typed = TypedInit
    /\ nopts = 0
    /\ exitcode = -1
    /\ out = <<>>
    /\ call = <<>>

\* no helper function is called on its own
\* static triplet pb(-1.0f, -1.0f, -1.0f), the same for ylch
Uncomputed == <<-100, -100, -100>>
\* xyz_to_luv(rgb_to_xyz(triplet(1, 1, 0))): (97.14, 7.69, 106.79)
BrightPoint == <<BrightPointL, 769, 10679>>
\* luv_to_lch of it: (97.14, 107.06, 1.499)
YellowLch == <<BrightPointL, 10706, BrightPointHue>>
\* luv_saturation of sRGB red (3.36), in percent
RedSaturation == 336
\* the statics of a fresh process
FreshStatics ==
    [pb |-> Uncomputed, ylch |-> Uncomputed, rs |-> -100, h |-> <<>>,
     inits |-> [pb |-> 0, ylch |-> 0, rs |-> 0, h |-> 0]]
\* no driver call with free iteration order is in progress
ProcIdle ==
    /\ cache = FreshStatics
    /\ job = <<>>
    /\ pending = {}
    /\ order = <<>>
    /\ late = {}
    /\ palette = <<>>
    /\ nclip = 0
    /\ jobs = 0
\* no widget has been constructed
GuiIdle ==
    /\ gui = <<>>
    /\ sig = <<>>
    /\ changes = 0
\* no helper function is called on its own
\* no thread has been started
ThreadsIdle == threads = <<>>
SideIdle ==
    /\ query = <<>>
    /\ result = <<>>
    /\ ProcIdle
    /\ GuiIdle
    /\ ThreadsIdle

Init ==
    /\ nanConv \in {"INT_MIN", "0", "INT_MAX"}
    /\ intMul = "wrap"
    /\ EngineIdle
    /\ CliStart
    /\ SideIdle

\* what every call sets up: the arguments and the caller's untouched buffer
Enter(d, nn, a) ==
    /\ pc = "idle"
    /\ drv' = d
    /\ n' = nn
    /\ arg' = a
    /\ colormap' = [k \in 0..(3 * nn - 1) |-> -1]
    /\ ent' = [k \in 0..(nn - 1) |-> NoEntry]
    /\ i' = 0
    /\ clipped' = 0
    /\ total' = 0
    /\ pc' = "run"
    /\ UNCHANGED <<cliVars, sideVars, nanConv, ret, iters, inner, oob>>

\* a caller invokes one of the drivers that are a single loop
CallSequential ==
    \E d \in SequentialDrivers, nn \in 2..MaxN :
      \E a \in ArgsOf(d, nn) :
        /\ Enter(d, nn, a)
        /\ sub' = [name |-> d, count |-> nn, base |-> 0]
        /\ phase' = 0
        /\ calls' = <<[name |-> d, count |-> nn]>>

\* PLDivergingLightness up to its first call: PLSequentialLightness(higherN, colormap, ...)
CallPLDivergingLightness ==
    \E nn \in 2..MaxN :
      LET lowerN == nn \div 2
          higherN == nn - lowerN
      IN /\ Enter("PLDivergingLightness", nn, NoArg)
         /\ sub' = [name |-> "PLSequentialLightness", count |-> higherN, base |-> 0]
         /\ phase' = 1
         /\ calls' = <<[name |-> "PLDivergingLightness", count |-> nn],
                       [name |-> "PLSequentialLightness", count |-> higherN]>>

\* PLDivergingSaturation up to its first call:
\* PLSequentialSaturation(lowerN, colormap + 3 * lowerN, ...)
CallPLDivergingSaturation ==
    \E nn \in 2..MaxN :
      LET lowerN == nn \div 2
      IN /\ Enter("PLDivergingSaturation", nn, NoArg)
         /\ sub' = [name |-> "PLSequentialSaturation", count |-> lowerN,
                    base |-> 3 * lowerN]
         /\ phase' = 1
         /\ calls' = <<[name |-> "PLDivergingSaturation", count |-> nn],
                       [name |-> "PLSequentialSaturation", count |-> lowerN]>>

\* the end of every loop body: three bytes stored at colormap + 3 * i of the
\* running routine, clipped++ if the entry was clamped, i++
Store(name, e, g, lambdas) ==
    /\ pc = "run"
    /\ sub.name = name
    /\ loop_continues(i, sub.count)
    /\ LET at == sub.base + 3 * i
       IN /\ colormap' = write(write(write(colormap, at, e.bytes[1]),
                                     at + 1, e.bytes[2]), at + 2, e.bytes[3])
          /\ oob' = (oob \/ outside(at) \/ outside(at + 1) \/ outside(at + 2))
          /\ ent' = IF (at \div 3) \in DOMAIN ent /\ ~outside(at + 2)
                    THEN [ent EXCEPT ![at \div 3] =
                            [g EXCEPT !.src = computed_as(drv, phase, sub, i)]]
                    ELSE ent
    /\ clipped' = IF e.ret THEN clipped + 1 ELSE clipped
    /\ i' = i + 1
    /\ iters' = iters + 1
    /\ inner' = inner + lambdas
    /\ UNCHANGED <<cliVars, sideVars, nanConv, pc, drv, n, arg, sub, phase, total, ret, calls>>

\* a loop body of a routine the model follows only to its stores
PlainEntry(name, lambdas) ==
    \E srgb \in SrgbSamples :
      LET e == xyz_to_colormap(srgb)
      IN Store(name, e, Computed(name, srgb, e), lambdas)

\* a loop body of CubeHelix or McNames
DirectEntry(name) ==
    \E srgb \in SrgbSamples :
      LET e == direct_to_colormap(srgb)
      IN Store(name, e, Computed(name, srgb, e), 0)

\* BrewerDiverging, the second path's parameter with the mutation "2.0f * t"
brewer_diverging_tt_unmirrored(t) == DyTwice(t)
\* float tt = 2.0f * (1.0f - t) of BrewerDiverging
brewer_diverging_tt_upper(t) == DyTwice(DyOneMinus(t))
\* float tt = 2.0f * t of BrewerDiverging
brewer_diverging_tt_lower(t) == DyTwice(t)

\* one body of BrewerSequential's loop, the conversion following the triples
\* of srgbs
BrewerSequentialBody(srgbs) ==
    \E srgb \in srgbs :
      LET name == "BrewerSequential"
          t == cell_center(i, sub.count)
          cp == get_color_points(arg.p1l, arg.saturation, arg.warmth)
          e == xyz_to_colormap(srgb)
          g == [Computed(name, srgb, e) EXCEPT
                  !.t = t, !.tt = t,
                  !.ex = ramp_exponent(DyToFx(t), arg.contrast, arg.brightness),
                  !.l = target_lightness(DyToFx(t), arg.contrast, arg.brightness),
                  !.pl = get_colormap_entry(DyToFx(t), cp, arg.contrast, arg.brightness),
                  !.via = "luv"]
      IN Store(name, e, g, 0)
BrewerSequentialEntry == BrewerSequentialBody(SrgbSamples)

\* one body of BrewerDiverging's loop, the conversion following the triples
\* of srgbs
BrewerDivergingBody(srgbs) ==
    \E srgb \in srgbs :
      LET name == "BrewerDiverging"
          count == sub.count
          middle == is_middle(i, count)
          t == cell_center(i, count)
          tt == IF middle THEN DyOne
                ELSE IF i < count \div 2 THEN brewer_diverging_tt_lower(t)
                ELSE brewer_diverging_tt_upper(t)
          \* the ends c0 and c1 of the two paths, lightness
          c0l == get_colormap_entry(10000, get_color_points(arg.p1l, arg.saturation, arg.warmth),
                                    arg.contrast, arg.brightness)
          c1l == get_colormap_entry(10000, get_color_points(arg.p1l1, arg.saturation, arg.warmth),
                                    arg.contrast, arg.brightness)
          cl == (c0l + c1l) \div 2
          sn == ((arg.ends[1] + arg.ends[2]) * arg.warmth) \div 200
          cc == (cl * Min(s_max(cl), sn)) \div 100
          e == xyz_to_colormap(srgb)
          g == [Computed(name, srgb, e) EXCEPT
                  !.t = t, !.tt = tt,
                  !.ex = ramp_exponent(DyToFx(tt), arg.contrast, arg.brightness),
                  !.l = target_lightness(DyToFx(tt), arg.contrast, arg.brightness),
                  !.kind = IF middle THEN (IF count <= 9 THEN "neutral" ELSE "average")
                           ELSE IF i < count \div 2 THEN "first" ELSE "second",
                  !.via = IF middle /\ count <= 9 THEN "lch" ELSE "luv",
                  !.lch = IF ~middle THEN <<0, 0, 0>>
                          ELSE IF count <= 9 THEN <<cl, cc, BrightPointHue>>
                          ELSE <<cl, 0, 0>>]
      IN Store(name, e, g, 0)
BrewerDivergingEntry == BrewerDivergingBody(SrgbSamples)

\* one body of BrewerQualitative's loop
BrewerQualitativeBody(srgbs) ==
    \E srgb \in srgbs :
      LET name == "BrewerQualitative"
          t == cell_center(i, sub.count)
          e == xyz_to_colormap(srgb)
          g == [Computed(name, srgb, e) EXCEPT
                  !.t = t, !.via = "lch",
                  !.lch = <<0, 0, brewer_qualitative_hue(t, arg)>>]
      IN Store(name, e, g, 0)
\* one body of PLSequentialRainbow's loop
PLSequentialRainbowBody(srgbs) ==
    \E srgb \in srgbs :
      LET name == "PLSequentialRainbow"
          t == cell_center(i, sub.count)
          e == xyz_to_colormap(srgb)
          g == [Computed(name, srgb, e) EXCEPT
                  !.t = t, !.via = "lch", !.lch = <<0, 0, rainbow_hue(t, arg)>>]
      IN Store(name, e, g, 0)

BrewerQualitativeEntry == BrewerQualitativeBody(SrgbSamples)
PLSequentialLightnessEntry == PlainEntry("PLSequentialLightness", 0)
PLSequentialSaturationEntry == PlainEntry("PLSequentialSaturation", 0)
PLSequentialRainbowEntry == PLSequentialRainbowBody(SrgbSamples)
\* one body of PLSequentialBlackBody's loop, the wavelength loop included
PLSequentialBlackBodyEntry == PlainEntry("PLSequentialBlackBody", wavelengths(360))
\* one body of PLSequentialMultiHue's loop
PLSequentialMultiHueBody(srgbs) ==
    \E srgb \in srgbs :
      LET name == "PLSequentialMultiHue"
          e == xyz_to_colormap(srgb)
          g == [Computed(name, srgb, e) EXCEPT
                  !.t = multi_hue_t(i, sub.count), !.via = "lch",
                  !.lch = multi_hue_lch(i, sub.count, arg)]
      IN Store(name, e, g, 0)
PLSequentialMultiHueEntry == PLSequentialMultiHueBody(SrgbSamples)
\* one body of PLQualitativeHue's loop, the conversion following the
\* triples of srgbs
PLQualitativeHueBody(srgbs) ==
    \E srgb \in srgbs :
      LET name == "PLQualitativeHue"
          e == xyz_to_colormap(srgb)
          g == [Computed(name, srgb, e) EXCEPT
                  !.t = cell_center(i, sub.count), !.via = "lch",
                  !.lch = qualitative_hue_lch(i, sub.count, arg)]
      IN Store(name, e, g, 0)
PLQualitativeHueEntry == PLQualitativeHueBody(SrgbSamples)
CubeHelixEntry == DirectEntry("CubeHelix")
McNamesEntry == DirectEntry("McNames")

\* one body of Moreland's loop
MorelandEntry ==
    \E srgb \in SrgbSamples :
      LET name == "Moreland"
          m == moreland_entry(i, sub.count, arg.omsh0, arg.omsh1)
          e == xyz_to_colormap(srgb)
          g == [Computed(name, srgb, e) EXCEPT
                  !.t = m.t, !.tt = m.u, !.msh = m.msh]
      IN Store(name, e, g, 0)

\* a driver called directly leaves its loop: return clipped
Return ==
    /\ pc = "run"
    /\ phase = 0
    /\ ~loop_continues(i, sub.count)
    /\ ret' = clipped
    /\ pc' = "done"
    /\ UNCHANGED <<cliVars, sideVars, nanConv, drv, n, arg, sub, phase, i, colormap, ent, clipped,
                   total, calls, iters, inner, oob>>

\* the first sequential call of a PLDiverging map returns: clipped += ...,
\* and the mirror loop starts
ReturnFirstHalf ==
    /\ pc = "run"
    /\ phase = 1
    /\ ~loop_continues(i, sub.count)
    /\ total' = total + clipped
    /\ phase' = 2
    /\ i' = 0
    /\ pc' = "copy"
    /\ UNCHANGED <<cliVars, sideVars, nanConv, drv, n, arg, sub, colormap, ent, clipped, ret,
                   calls, iters, inner, oob>>

\* PLDivergingLightness: the byte the mirror loop writes, with the mutation
\* "3 * higherN + 3 * i + j"
mirror_dst_after_higher(lowerN, higherN, ii, j) == 3 * higherN + 3 * ii + j
\* PLDivergingLightness: colormap[3 * lowerN + 3 * i + j] = ...
mirror_dst_lightness(lowerN, higherN, ii, j) == 3 * lowerN + 3 * ii + j
\* the same with the mutation "in index order"
mirror_src_forward(lowerN, higherN, ii, j) == 3 * ii + j
\* PLDivergingLightness: ... = colormap[3 * (higherN - 1 - i) + j]
mirror_src_lightness(lowerN, higherN, ii, j) == 3 * (higherN - 1 - ii) + j
\* PLDivergingSaturation: colormap[3 * i + j] = ...
mirror_dst_saturation(lowerN, higherN, ii, j) == 3 * ii + j
\* PLDivergingSaturation: ... = colormap[3 * lowerN + 3 * (lowerN - 1 - i) + j]
mirror_src_saturation(lowerN, higherN, ii, j) == 3 * lowerN + 3 * (lowerN - 1 - ii) + j

\* colormap[dst] = colormap[src]
copy_byte(cm, dst, src) ==
    IF src \in DOMAIN cm THEN write(cm, dst, cm[src]) ELSE write(cm, dst, -1)

\* for (int j = 0; j < 3; j++) of a mirror loop; d0 and s0 are the bytes
\* written and read at j = 0
MirrorEntry(d0, s0) ==
    /\ colormap' = copy_byte(copy_byte(copy_byte(colormap, d0, s0),
                                       d0 + 1, s0 + 1), d0 + 2, s0 + 2)
    /\ oob' = (oob \/ outside(d0) \/ outside(d0 + 1) \/ outside(d0 + 2))
    /\ ent' = IF (d0 \div 3) \in DOMAIN ent /\ (s0 \div 3) \in DOMAIN ent
                 /\ ~outside(d0 + 2)
              THEN [ent EXCEPT ![d0 \div 3] = ent[s0 \div 3]] ELSE ent
    /\ i' = i + 1
    /\ UNCHANGED <<cliVars, sideVars, nanConv, pc, drv, n, arg, sub, phase, clipped, total, ret,
                   calls, iters, inner>>

\* one round of PLDivergingLightness's for (int i = 0; i < higherN; i++)
CopyLightness ==
    LET lowerN == n \div 2
        higherN == n - lowerN
    IN /\ pc = "copy"
       /\ drv = "PLDivergingLightness"
       /\ i < higherN
       /\ MirrorEntry(mirror_dst_lightness(lowerN, higherN, i, 0),
                      mirror_src_lightness(lowerN, higherN, i, 0))

\* one round of PLDivergingSaturation's for (int i = 0; i < lowerN; i++)
CopySaturation ==
    LET lowerN == n \div 2
        higherN == n - lowerN
    IN /\ pc = "copy"
       /\ drv = "PLDivergingSaturation"
       /\ i < lowerN
       /\ MirrorEntry(mirror_dst_saturation(lowerN, higherN, i, 0),
                      mirror_src_saturation(lowerN, higherN, i, 0))

\* the second sequential call of a PLDiverging map, made when its mirror
\* loop is through
SecondCall(name, count, base) ==
    /\ sub' = [name |-> name, count |-> count, base |-> base]
    /\ calls' = Append(calls, [name |-> name, count |-> count])
    /\ clipped' = 0
    /\ i' = 0
    /\ phase' = 3
    /\ pc' = "run"
    /\ UNCHANGED <<cliVars, sideVars, nanConv, drv, n, arg, colormap, ent, total, ret, iters,
                   inner, oob>>

\* PLSequentialLightness(lowerN, colormap, ...)
CallSecondLightness ==
    LET lowerN == n \div 2
        higherN == n - lowerN
    IN /\ pc = "copy"
       /\ drv = "PLDivergingLightness"
       /\ ~(i < higherN)
       /\ SecondCall("PLSequentialLightness", lowerN, 0)

\* PLSequentialSaturation(higherN, colormap + 3 * lowerN, ...)
CallSecondSaturation ==
    LET lowerN == n \div 2
        higherN == n - lowerN
    IN /\ pc = "copy"
       /\ drv = "PLDivergingSaturation"
       /\ ~(i < lowerN)
       /\ SecondCall("PLSequentialSaturation", higherN, 3 * lowerN)

\* the second sequential call returns, and with it the PLDiverging map:
\* clipped += ...; return clipped
ReturnSecondHalf ==
    /\ pc = "run"
    /\ phase = 3
    /\ ~loop_continues(i, sub.count)
    /\ total' = total + clipped
    /\ ret' = total + clipped
    /\ pc' = "done"
    /\ UNCHANGED <<cliVars, sideVars, nanConv, drv, n, arg, sub, phase, i, colormap, ent, clipped,
                   calls, iters, inner, oob>>

Next ==
    \/ CallSequential
    \/ CallPLDivergingLightness
    \/ CallPLDivergingSaturation
    \/ BrewerSequentialEntry
    \/ BrewerDivergingEntry
    \/ BrewerQualitativeEntry
    \/ PLSequentialLightnessEntry
    \/ PLSequentialSaturationEntry
    \/ PLSequentialRainbowEntry
    \/ PLSequentialBlackBodyEntry
    \/ PLSequentialMultiHueEntry
    \/ PLQualitativeHueEntry
    \/ CubeHelixEntry
    \/ MorelandEntry
    \/ McNamesEntry
    \/ Return
    \/ ReturnFirstHalf
    \/ CopyLightness
    \/ CopySaturation
    \/ CallSecondLightness
    \/ CallSecondSaturation
    \/ ReturnSecondHalf

Spec == Init /\ [][Next]_vars

\* ---------------------------------------- the drivers, up to the colour point
\* The same loops, run over the callers' hues, divergences and rotations and
\* over longer maps, the conversion following one in-gamut triple per entry.
InGamut == { <<Fin(0), Fin(128 * Res), Fin(255 * Res)>> }
\* the counts: the short maps, and 9, 10 and 11 around the limit of the
\* "discrete" maps
PathN == (2..MaxN) \cup {9, 10, 11}

PLQualitativeHueArgs ==
    { [NoArg EXCEPT !.hue = h, !.divergence = d,
                    !.lightness = PUQualitativeHueDefaultLightness,
                    !.saturation = PUQualitativeHueDefaultSaturation] :
        h \in HueSamples, d \in DivergenceSamples }
\* the Brewer maps with the default contrast, saturation, brightness and
\* warmth; the two paths end at saturations 0.4 and 0.6
BrewerPathArgs ==
    { [NoArg EXCEPT !.hue = h, !.divergence = d, !.p1l = 6870, !.p1l1 = 5444,
                    !.contrast = BrewerSequentialDefaultContrast,
                    !.saturation = BrewerSequentialDefaultSaturation,
                    !.brightness = BrewerSequentialDefaultBrightness,
                    !.warmth = BrewerSequentialDefaultWarmth,
                    !.ends = <<40, 60>>] :
        h \in HueSamples, d \in DivergenceSamples }
PLSequentialRainbowArgs ==
    { [NoArg EXCEPT !.hue = h, !.rotations = r] :
        h \in HueSamples, r \in {PUSequentialRainbowDefaultRotations, 100} }
\* PLSequentialMultiHue with the default list, with one hue, with three
\* hues that span the whole map; two choices of the saturations
PLSequentialMultiHueArgs ==
    { [MultiHueDefaultArg EXCEPT !.hues = Len(h[1]), !.hue_values = h[1],
                                 !.hue_positions = h[2],
                                 !.s0 = s[1], !.s1 = s[2], !.s05 = s[3]] :
        h \in { << <<0, 1047>>, <<2500, 7500>> >>,
                << <<2000>>, <<2500>> >>,
                << <<0, 1047, 3000>>, <<0, 5000, 10000>> >> },
        s \in { <<50, 50, 190>>, <<100, 20, 100>> } }
PathArgs(d, nn) ==
    CASE d = "PLQualitativeHue" -> PLQualitativeHueArgs
      [] d = "PLSequentialMultiHue" -> PLSequentialMultiHueArgs
      [] d = "PLSequentialRainbow" -> PLSequentialRainbowArgs
      [] OTHER -> BrewerPathArgs
PathDrivers ==
    { "BrewerSequential", "BrewerDiverging", "BrewerQualitative",
      "PLSequentialRainbow", "PLSequentialMultiHue", "PLQualitativeHue" }

CallPath ==
    \E d \in PathDrivers, nn \in PathN :
      \E a \in PathArgs(d, nn) :
        /\ Enter(d, nn, a)
        /\ sub' = [name |-> d, count |-> nn, base |-> 0]
        /\ phase' = 0
        /\ calls' = <<[name |-> d, count |-> nn]>>

BrewerSequentialPoint == BrewerSequentialBody(InGamut)
BrewerDivergingPoint == BrewerDivergingBody(InGamut)
BrewerQualitativePoint == BrewerQualitativeBody(InGamut)
PLSequentialRainbowPoint == PLSequentialRainbowBody(InGamut)
PLSequentialMultiHuePoint == PLSequentialMultiHueBody(InGamut)
PLQualitativeHuePoint == PLQualitativeHueBody(InGamut)

InitPath ==
    /\ nanConv = "0"
    /\ intMul = "wrap"
    /\ EngineIdle
    /\ CliStart
    /\ SideIdle

NextPath ==
    \/ CallPath
    \/ BrewerSequentialPoint
    \/ BrewerDivergingPoint
    \/ BrewerQualitativePoint
    \/ PLSequentialRainbowPoint
    \/ PLSequentialMultiHuePoint
    \/ PLQualitativeHuePoint
    \/ Return

SpecPath == InitPath /\ [][NextPath]_vars

\* --------------------------------------------- the command line: main
\* every step of main leaves the engine's variables and the build alone
CliStep == UNCHANGED <<engineVars, intMul, sideVars>>

\* one round of the getopt loop that ends in `break`
Parsed(newOpt, newTyped) ==
    /\ cpc = "parse"
    /\ nopts < MaxOpts
    /\ opt' = newOpt
    /\ typed' = newTyped
    /\ nopts' = nopts + 1
    /\ UNCHANGED <<cpc, exitcode, out, call>>
    /\ CliStep

\* atof(optarg) * M_PI / 180.0, optarg in hundredths of a degree
deg_to_rad(x) == Fin((x[2] * 31416) \div 1800000)
\* the -V loop: push_back(atof(optarg) * M_PI / 180.0) per comma-separated item
push_back_hues(v, list) == v \o [k \in 1..Len(list) |-> deg_to_rad(list[k])]
\* the -P loop: push_back(atof(optarg)) per comma-separated item
push_back_positions(v, list) == v \o list

OptVersion == Parsed([opt EXCEPT !.print_version = TRUE], typed)
OptHelp == Parsed([opt EXCEPT !.print_help = TRUE], typed)
\* case 'f': the strcmp chain, -1 for any other word
OptFormat ==
    \E word \in Formats \cup {"png"} :
        Parsed([opt EXCEPT !.format = IF word \in Formats THEN word ELSE InvalidEnum],
               typed)
\* case 't': the strcmp chain, -1 for any other word
OptType ==
    \E word \in Types \cup {"rainbow"} :
        Parsed([opt EXCEPT !.type = IF word \in Types THEN word ELSE InvalidEnum],
               typed)
\* case 'n': n = atoi(optarg)
OptN == \E v \in NSamples : Parsed([opt EXCEPT !.n = v], typed)
\* case 'h', case 'd'
OptAngle ==
    \E k \in DOMAIN AngleOption, v \in AngleSamples :
        Parsed([opt EXCEPT ![AngleOption[k]] = deg_to_rad(v)],
               [typed EXCEPT ![AngleOption[k]] = v])
\* case 'c' ... case 'p': x = atof(optarg)
OptFloat ==
    \E k \in DOMAIN FloatOption :
      \E v \in FloatSamples \cup (IF k \in {"c", "r"} THEN {NegativeSample} ELSE {}) :
        Parsed([opt EXCEPT ![FloatOption[k]] = v],
               [typed EXCEPT ![FloatOption[k]] = v])
\* case 'V'
OptHueValues ==
    \E list \in HueListSamples :
        Parsed([opt EXCEPT !.hue_values = push_back_hues(@, list)],
               [typed EXCEPT !.hue_values = @ \o list])
\* case 'P' with the argument attached (-P0,0.5 or --hue-positions=0,0.5)
OptHuePositions ==
    \E list \in PositionListSamples :
        Parsed([opt EXCEPT !.hue_positions = push_back_positions(@, list)],
               [typed EXCEPT !.hue_positions = @ \o list])
\* case 'P' written "-P 0,0.5": the option string says "P::", so optarg is
\* NULL and atof(NULL) is undefined; the builds at hand die of SIGSEGV
OptHuePositionsDetached ==
    /\ cpc = "parse"
    /\ nopts < MaxOpts
    /\ cpc' = "crash"
    /\ exitcode' = 139
    /\ nopts' = nopts + 1
    /\ UNCHANGED <<opt, typed, out, call>>
    /\ CliStep
\* case 'A'
OptColor0 ==
    \E c \in ColorSamples :
        Parsed([opt EXCEPT !.color0 = c, !.have_color0 = TRUE],
               [typed EXCEPT !.color0 = c])
\* case 'O'
OptColor1 ==
    \E c \in ColorSamples :
        Parsed([opt EXCEPT !.color1 = c, !.have_color1 = TRUE],
               [typed EXCEPT !.color1 = c])
\* default: return 1 (an option getopt_long does not know)
OptUnknown ==
    /\ cpc = "parse"
    /\ nopts < MaxOpts
    /\ cpc' = "exit"
    /\ exitcode' = 1
    /\ nopts' = nopts + 1
    /\ UNCHANGED <<opt, typed, out, call>>
    /\ CliStep
\* c == -1: break
EndOfOptions ==
    /\ cpc = "parse"
    /\ cpc' = "parsed"
    /\ UNCHANGED <<opt, typed, nopts, exitcode, out, call>>
    /\ CliStep

\* main returns with status code, having printed text (<<>> for nothing)
Exit(code, text) ==
    /\ cpc' = "exit"
    /\ exitcode' = code
    /\ out' = text
    /\ UNCHANGED <<opt, typed, nopts, call>>
    /\ CliStep

PrintVersion ==
    /\ cpc = "parsed"
    /\ opt.print_version
    /\ Exit(0, <<"version">>)
PrintHelp ==
    /\ cpc = "parsed"
    /\ ~opt.print_version
    /\ opt.print_help
    /\ Exit(0, <<"help">>)
\* the tests that follow the two above
Checking == cpc = "parsed" /\ ~opt.print_version /\ ~opt.print_help
RejectFormat ==
    /\ Checking
    /\ opt.format = InvalidEnum
    /\ Exit(1, <<>>)
RejectN ==
    /\ Checking
    /\ opt.format # InvalidEnum
    /\ opt.n < 2
    /\ Exit(1, <<>>)
RejectType ==
    /\ Checking
    /\ opt.format # InvalidEnum
    /\ ~(opt.n < 2)
    /\ opt.type = InvalidEnum
    /\ Exit(1, <<>>)

\* x < 0.0f
less_zero(x) == x[1] = "fin" /\ x[2] < 0
\* if (x < 0.0f) { if (type == ...) x = ColorMap::...Default...; else if ... }
default_for(x, type, owners, param) ==
    IF less_zero(x) /\ type \in owners THEN DefaultConstant(type, param) ELSE x
\* the same for the two locals initialized to NAN
default_if_nan(x, type, owners, param) ==
    IF IsNaN(x) /\ type \in owners THEN DefaultConstant(type, param) ELSE x

\* the contrast default with the mutation "always the constant"
default_contrast_constant(x, type, nn) ==
    default_for(x, type, {"brewer_seq", "brewer_div", "brewer_qual"}, "contrast")
\* if (contrast < 0.0f) { ... }
default_contrast(x, type, nn) ==
    IF ~less_zero(x) THEN x
    ELSE IF type = "brewer_seq"
         THEN (IF nn <= 9 THEN Fin(BrewerSequentialDefaultContrastForSmallN(nn))
               ELSE DefaultConstant(type, "contrast"))
    ELSE IF type = "brewer_div"
         THEN (IF nn <= 9 THEN Fin(BrewerDivergingDefaultContrastForSmallN(nn))
               ELSE DefaultConstant(type, "contrast"))
    ELSE IF type = "brewer_qual" THEN DefaultConstant(type, "contrast")
    ELSE x

\* the defaulting of main, from `if (hue < 0.0f)` to the hue positions
Defaulted(o) ==
    LET t == o.type
    IN [o EXCEPT
          !.hue = default_for(@, t,
              {"brewer_seq", "brewer_div", "brewer_qual", "puseq_lightness",
               "puseq_saturation", "puseq_rainbow", "pudiv_lightness",
               "pudiv_saturation", "puqual_hue", "cubehelix"}, "hue"),
          !.divergence = default_for(@, t,
              {"brewer_div", "brewer_qual", "pudiv_lightness", "pudiv_saturation",
               "puqual_hue"}, "divergence"),
          !.contrast = default_contrast(@, t, o.n),
          !.saturation = default_for(@, t,
              {"brewer_seq", "brewer_div", "brewer_qual", "puseq_lightness",
               "puseq_saturation", "puseq_rainbow", "puseq_blackbody",
               "puseq_multihue", "pudiv_lightness", "pudiv_saturation",
               "puqual_hue", "cubehelix"}, "saturation"),
          !.saturation_range = default_for(@, t,
              {"puseq_lightness", "puseq_saturation", "puseq_rainbow",
               "puseq_blackbody", "puseq_multihue", "pudiv_lightness",
               "pudiv_saturation"}, "saturation_range"),
          !.brightness = default_for(@, t,
              {"brewer_seq", "brewer_div", "brewer_qual"}, "brightness"),
          !.warmth = default_for(@, t, {"brewer_seq", "brewer_div"}, "warmth"),
          !.lightness = default_for(@, t,
              {"puseq_saturation", "pudiv_saturation", "puqual_hue"}, "lightness"),
          !.lightness_range = default_for(@, t,
              {"puseq_lightness", "puseq_rainbow", "puseq_blackbody",
               "puseq_multihue", "pudiv_lightness"}, "lightness_range"),
          !.rotations = default_if_nan(@, t, {"puseq_rainbow", "cubehelix"}, "rotations"),
          !.temperature = default_for(@, t, {"puseq_blackbody"}, "temperature"),
          !.temperature_range = default_for(@, t, {"puseq_blackbody"}, "temperature_range"),
          !.gamma = default_for(@, t, {"cubehelix"}, "gamma"),
          !.hue_values = IF Len(@) = 0 /\ t = "puseq_multihue"
                         THEN SubSeq(PUSequentialMultiHueDefaultHueValues, 1,
                                     PUSequentialMultiHueDefaultHues)
                         ELSE @,
          !.hue_positions = IF Len(@) = 0 /\ t = "puseq_multihue"
                            THEN SubSeq(PUSequentialMultiHueDefaultHuePositions, 1,
                                        PUSequentialMultiHueDefaultHues)
                            ELSE @]

ApplyDefaults ==
    /\ Checking
    /\ opt.format # InvalidEnum
    /\ ~(opt.n < 2)
    /\ opt.type # InvalidEnum
    /\ opt' = Defaulted(opt)
    /\ cpc' = "defaulted"
    /\ UNCHANGED <<typed, nopts, exitcode, out, call>>
    /\ CliStep

\* if (hue_values.size() != hue_positions.size()) return 1
RejectHueLists ==
    /\ cpc = "defaulted"
    /\ Len(opt.hue_values) # Len(opt.hue_positions)
    /\ Exit(1, <<>>)

\* the defaulting that follows the test of the two lists
DefaultedLate(o) ==
    [o EXCEPT
       !.color0 = IF ~o.have_color0 /\ o.type = "moreland"
                  THEN MorelandDefaultColor0 ELSE @,
       !.color1 = IF ~o.have_color1 /\ o.type = "moreland"
                  THEN MorelandDefaultColor1 ELSE @,
       !.periods = default_if_nan(@, o.type, {"mcnames"}, "periods")]

\* the function each case of the switch calls
DriverOf ==
    [brewer_seq |-> "BrewerSequential", brewer_div |-> "BrewerDiverging",
     brewer_qual |-> "BrewerQualitative",
     puseq_lightness |-> "PUSequentialLightness",
     puseq_saturation |-> "PUSequentialSaturation",
     puseq_rainbow |-> "PUSequentialRainbow",
     puseq_blackbody |-> "PUSequentialBlackBody",
     puseq_multihue |-> "PUSequentialMultiHue",
     pudiv_lightness |-> "PUDivergingLightness",
     pudiv_saturation |-> "PUDivergingSaturation",
     puqual_hue |-> "PUQualitativeHue", cubehelix |-> "CubeHelix",
     moreland |-> "Moreland", mcnames |-> "McNames"]
\* the locals each case of the switch passes, after n and the buffer
ParamsOf ==
    [brewer_seq |-> {"hue", "contrast", "saturation", "brightness", "warmth"},
     brewer_div |-> {"hue", "divergence", "contrast", "saturation", "brightness",
                     "warmth"},
     brewer_qual |-> {"hue", "divergence", "contrast", "saturation", "brightness"},
     puseq_lightness |-> {"lightness_range", "saturation_range", "saturation", "hue"},
     puseq_saturation |-> {"saturation_range", "lightness", "saturation", "hue"},
     puseq_rainbow |-> {"lightness_range", "saturation_range", "hue", "rotations",
                        "saturation"},
     puseq_blackbody |-> {"temperature", "temperature_range", "lightness_range",
                          "saturation_range", "saturation"},
     puseq_multihue |-> {"lightness_range", "saturation_range", "saturation",
                         "hue_values", "hue_positions"},
     pudiv_lightness |-> {"lightness_range", "saturation_range", "saturation",
                          "hue", "divergence"},
     pudiv_saturation |-> {"saturation_range", "lightness", "saturation", "hue",
                           "divergence"},
     puqual_hue |-> {"hue", "divergence", "lightness", "saturation"},
     cubehelix |-> {"hue", "rotations", "saturation", "gamma"},
     moreland |-> {"color0", "color1"},
     mcnames |-> {"periods"}]

IntMin == -(2^30) - 2^30
IntMax == (2^30 - 1) + 2^30
\* 3 * n does not fit an int
three_n_overflows(nn) == nn > IntMax \div 3
\* 3 * n in 32-bit two's complement
three_n_wrapped(nn) ==
    IF ~three_n_overflows(nn) THEN 3 * nn
    ELSE LET a == nn + IntMin IN (a + nn) + a
\* a byte count as <<whole entries, bytes over>>
as_entries(bytes) == <<bytes \div 3, bytes % 3>>

\* std::vector<unsigned char> colormap(3 * n) and the switch: the driver is
\* called with n and colormap.data()
Generate ==
    /\ cpc = "defaulted"
    /\ Len(opt.hue_values) = Len(opt.hue_positions)
    /\ LET o == DefaultedLate(opt)
           w == three_n_wrapped(o.n)
       IN /\ three_n_overflows(o.n) /\ intMul = "wrap" => w >= 0
          /\ opt' = o
          /\ call' = [name |-> DriverOf[o.type], type |-> o.type, n |-> o.n,
                      buf |-> IF three_n_overflows(o.n) /\ intMul = "wrap"
                              THEN as_entries(w) ELSE <<o.n, 0>>,
                      hues |-> Len(o.hue_values),
                      args |-> [x \in ParamsOf[o.type] |-> o[x]]]
    /\ cpc' = "generated"
    /\ UNCHANGED <<typed, nopts, exitcode, out>>
    /\ CliStep

\* the vector's constructor throws: std::length_error for a size that the
\* negative int became, std::bad_alloc for more memory than there is
AllocationFails ==
    /\ cpc = "defaulted"
    /\ Len(opt.hue_values) = Len(opt.hue_positions)
    /\ three_n_overflows(opt.n)
    /\ intMul = "wrap" => three_n_wrapped(opt.n) < 0
    /\ opt' = DefaultedLate(opt)
    /\ cpc' = "abort"
    /\ exitcode' = 134
    /\ UNCHANGED <<typed, nopts, out, call>>
    /\ CliStep

\* fputs(output.c_str(), stdout); return 0
Output ==
    /\ cpc = "generated"
    /\ Exit(0, <<opt.format>>)

NextCli ==
    \/ OptVersion
    \/ OptHelp
    \/ OptFormat
    \/ OptType
    \/ OptN
    \/ OptAngle
    \/ OptFloat
    \/ OptHueValues
    \/ OptHuePositions
    \/ OptHuePositionsDetached
    \/ OptColor0
    \/ OptColor1
    \/ OptUnknown
    \/ EndOfOptions
    \/ PrintVersion
    \/ PrintHelp
    \/ RejectFormat
    \/ RejectN
    \/ RejectType
    \/ ApplyDefaults
    \/ RejectHueLists
    \/ Generate
    \/ AllocationFails
    \/ Output

InitCli ==
    /\ nanConv = "0"
    /\ intMul \in {"wrap", "wide"}
    /\ EngineIdle
    /\ CliStart
    /\ SideIdle

SpecCli == InitCli /\ [][NextCli]_vars

\* ------------------------------------------- helper functions on their own
\* distance of the hues of the grid most_saturated_in_srgb is queried on
HueStep == 25
\* the query hues: the grid over [0, 2 pi], and each corner hue with its
\* neighbours
HueQueries ==
    {h \in 0..twopi : h % HueStep = 0} \cup {twopi}
      \cup {CornerHues[c] + d : c \in 1..6, d \in {-1, 0, 1}}
\* the (n, i) a per-entry loop computes t for: every entry of the maps of up
\* to 4 MaxN entries, and the last two entries of maps around 2^23 and 2^24
\* entries (the command line takes any int for n)
CellQueries ==
    { <<nn, ii>> : nn \in 1..(4 * MaxN), ii \in 0..(4 * MaxN - 1) }
      \cup { <<nn, nn - d>> : nn \in {8388608, 8388609, 8388610, 16777216}, d \in {1, 2} }

\* ------------------------------ hue differences and the qualitative blend
\* the floats pi and twopi, their neighbours, and the lightness and hue of
\* yellow (luv_to_lch(xyz_to_luv(rgb_to_xyz(1, 1, 0))) = 97.1385803, 1.49889278)
pi_float == <<13176795, 22>>
twopi_float == <<13176795, 21>>
below_pi == <<6588397, 21>>
above_pi == <<3294199, 20>>
below_twopi == <<6588397, 20>>
ylch_l == <<3183037, 15>>
ylch_h == <<1571703, 20>>
\* hue_diff with the mutation "not folded"
hue_diff_float_unfolded(h0, h1) ==
    LET t == fsub(h1, h0) IN <<Abs(t[1]), t[2]>>
\* hue_diff(h0, h1) in binary32
hue_diff_float(h0, h1) ==
    LET t == fsub(h1, h0)
    IN IF fless(<<Abs(t[1]), t[2]>>, pi_float) THEN <<Abs(t[1]), t[2]>>
       ELSE fsub(twopi_float, <<Abs(t[1]), t[2]>>)
\* float cl = (1.0f - alpha) * l0 + alpha * l1
blend(alpha, l0, l1) == fadd(fmul(fsub(DyOne, alpha), l0), fmul(alpha, l1))
\* the lightness of a BrewerQualitative entry with hue ch: alpha, l0, l1, cl
qualitative_lightness(ch, contrast, brightness) ==
    [alpha |-> fquot(hue_diff_float(ch, ylch_h), pi_float),
     l0 |-> fmul(brightness, ylch_l),
     l1 |-> fmul(fsub(DyOne, contrast), fmul(brightness, ylch_l)),
     cl |-> blend(fquot(hue_diff_float(ch, ylch_h), pi_float),
                  fmul(brightness, ylch_l),
                  fmul(fsub(DyOne, contrast), fmul(brightness, ylch_l)))]
\* the hues in [0, 2 pi) the model takes differences of: every tenth of a
\* radian, and the floats at and next to pi and next to 2 pi
HueFloats ==
    {flit(k, 10) : k \in 0..62} \cup {below_pi, pi_float, above_pi, below_twopi}
\* contrast and brightness, in percent
BlendContrasts == {0, 50, 88, 100}
BlendBrightnesses == {10, 80, 100}

\* ------------------------------------------- the colour matching function
\* static const triplet cmf_xyz[]: the CIE 1931 table from 380 nm to 780 nm
\* in steps of 5 nm, in units of 1/1000000
cmf_xyz ==
    << <<1368, 39, 6450>>, <<2236, 64, 10550>>, <<4243, 120, 20050>>,
       <<7650, 217, 36210>>, <<14310, 396, 67850>>, <<23190, 640, 110200>>,
       <<43510, 1210, 207400>>, <<77630, 2180, 371300>>, <<134380, 4000, 645600>>,
       <<214770, 7300, 1039050>>, <<283900, 11600, 1385600>>, <<328500, 16840, 1622960>>,
       <<348280, 23000, 1747060>>, <<348060, 29800, 1782600>>, <<336200, 38000, 1772110>>,
       <<318700, 48000, 1744100>>, <<290800, 60000, 1669200>>, <<251100, 73900, 1528100>>,
       <<195360, 90980, 1287640>>, <<142100, 112600, 1041900>>, <<95640, 139020, 812950>>,
       <<57950, 169300, 616200>>, <<32010, 208020, 465180>>, <<14700, 258600, 353300>>,
       <<4900, 323000, 272000>>, <<2400, 407300, 212300>>, <<9300, 503000, 158200>>,
       <<29100, 608200, 111700>>, <<63270, 710000, 78250>>, <<109600, 793200, 57250>>,
       <<165500, 862000, 42160>>, <<225750, 914850, 29840>>, <<290400, 954000, 20300>>,
       <<359700, 980300, 13400>>, <<433450, 994950, 8750>>, <<512050, 1000000, 5750>>,
       <<594500, 995000, 3900>>, <<678400, 978600, 2750>>, <<762100, 952000, 2100>>,
       <<842500, 915400, 1800>>, <<916300, 870000, 1650>>, <<978600, 816300, 1400>>,
       <<1026300, 757000, 1100>>, <<1056700, 694900, 1000>>, <<1062200, 631000, 800>>,
       <<1045600, 566800, 600>>, <<1002600, 503000, 340>>, <<938400, 441200, 240>>,
       <<854450, 381000, 190>>, <<751400, 321000, 100>>, <<642400, 265000, 50>>,
       <<541900, 217000, 30>>, <<447900, 175000, 20>>, <<360800, 138200, 10>>,
       <<283500, 107000, 0>>, <<218700, 81600, 0>>, <<164900, 61000, 0>>,
       <<121200, 44580, 0>>, <<87400, 32000, 0>>, <<63600, 23200, 0>>,
       <<46770, 17000, 0>>, <<32900, 11920, 0>>, <<22700, 8210, 0>>,
       <<15840, 5723, 0>>, <<11359, 4102, 0>>, <<8111, 2929, 0>>,
       <<5790, 2091, 0>>, <<4109, 1484, 0>>, <<2899, 1047, 0>>,
       <<2049, 740, 0>>, <<1440, 520, 0>>, <<1000, 361, 0>>,
       <<690, 249, 0>>, <<476, 172, 0>>, <<332, 120, 0>>,
       <<235, 85, 0>>, <<166, 60, 0>>, <<117, 42, 0>>,
       <<83, 30, 0>>, <<59, 21, 0>>, <<42, 15, 0>> >>
\* cmf_xyz[k] as the code reads it: an entry of the table, or whatever lies
\* behind the array for an index outside it
table_read(k, garbage) ==
    IF k \in 0..(Len(cmf_xyz) - 1) THEN cmf_xyz[k + 1] ELSE garbage
\* what a read outside the table may yield
Garbage == {<<0, 0, 0>>, <<1000000, 1000000, 1000000>>}
\* the test "lambda % 5 != 0", with the mutation "interpolate at every lambda"
interpolates_always(lambda) == TRUE
interpolates(lambda) == lambda % 5 # 0
\* (1 - alpha) * xyz + alpha * xyz1 with alpha = rem / 5, in units of
\* 1/5000000
cmf_mix(rem, xyz, xyz1) ==
    [c \in 1..3 |-> (5 - rem) * xyz[c] + rem * xyz1[c]]
\* color_matching_function(lambda): the value in units of 1/5000000 and the
\* indices of cmf_xyz it reads
color_matching_function(lambda, garbage) ==
    IF lambda >= 380 /\ lambda <= 780
    THEN IF interpolates(lambda)
         THEN [xyz |-> cmf_mix(lambda % 5,
                               table_read((lambda - 380) \div 5, garbage),
                               table_read((lambda - 380) \div 5 + 1, garbage)),
               reads |-> {(lambda - 380) \div 5, (lambda - 380) \div 5 + 1}]
         ELSE [xyz |-> cmf_mix(0, table_read((lambda - 380) \div 5, garbage),
                               <<0, 0, 0>>),
               reads |-> {(lambda - 380) \div 5}]
    ELSE [xyz |-> <<0, 0, 0>>, reads |-> {}]
RECURSIVE visited_wavelengths(_)
\* for (int lambda = 360; lambda <= 830; lambda += stepsize): the values of
\* lambda from the given one on
visited_wavelengths(lambda) ==
    IF lambda <= 830 THEN {lambda} \cup visited_wavelengths(lambda + 5) ELSE {}
\* the wavelengths color_matching_function is asked for
Lambdas == (-10)..900

\* ------------------------------------------------ the steps of multi_hue_get
\* the index the loop ends with, with the mutation "the first segment"
multi_hue_index_first(k, t, a) == 0
RECURSIVE multi_hue_index(_, _, _)
\* for (i = 0; i < hues - 2; i++) if (t >= hue_positions[i] && t <
\* hue_positions[i+1]) break; from i = k on: the i the loop ends with
multi_hue_index(k, t, a) ==
    IF k >= a.hues - 2 THEN k
    ELSE IF t >= a.hue_positions[k + 1] /\ t < a.hue_positions[k + 2] THEN k
    ELSE multi_hue_index(k + 1, t, a)
\* the indices of hue_values and hue_positions that multi_hue_get reads
multi_hue_reads(t, a) ==
    IF a.hues < 1 THEN {}
    ELSE IF a.hues = 1 THEN {0}
    ELSE IF t <= a.hue_positions[1] THEN {0}
    ELSE IF t >= a.hue_positions[a.hues] THEN {0, a.hues - 1}
    ELSE {0, a.hues - 1} \cup UNION {{k, k + 1} : k \in 0..multi_hue_index(0, t, a)}
\* p1 - p0, the divisor of alpha; 1 where multi_hue_get returns before it
multi_hue_width(t, a) ==
    IF a.hues <= 1 THEN 1
    ELSE IF t <= a.hue_positions[1] \/ t >= a.hue_positions[a.hues] THEN 1
    ELSE a.hue_positions[multi_hue_index(0, t, a) + 2]
           - a.hue_positions[multi_hue_index(0, t, a) + 1]
\* the hue lists multi_hue_get is called with: none, one hue, the default,
\* and lists of three and four hues, some with repeated positions
MultiHueLists ==
    { [hues |-> Len(x[1]), hue_values |-> x[1], hue_positions |-> x[2]] :
        x \in { << <<>>, <<>> >>,
                 << <<500>>, <<5000>> >>,
                 << <<0, 1047>>, <<2500, 7500>> >>,
                 << <<0, 1047, 3142>>, <<0, 5000, 10000>> >>,
                 << <<0, 1047, 3142>>, <<2500, 2500, 7500>> >>,
                 << <<0, 1047, 3142>>, <<2500, 7500, 7500>> >>,
                 << <<0, 1047, 3142>>, <<5000, 5000, 5000>> >>,
                 << <<0, 1000, 2000, 3000>>, <<1000, 3000, 3000, 9000>> >> } }
MultiHueTs == {0, 1000, 2500, 3000, 5000, 7500, 9000, 10000}

\* ------------------------------------- uniform lightness and chroma steps
\* In binary32.  The callers modelled pass one hue for both end points and
\* the result, so that every std::cos here is cos(0) = 1.  A distance or an
\* error is [nan, v]: std::sqrt of a negative radicand is a NaN.
fabs(x) == <<Abs(x[1]), x[2]>>
\* std::max(x, y) and std::min(x, y)
fmax(x, y) == IF fless(x, y) THEN y ELSE x
fmin(x, y) == IF fless(y, x) THEN y ELSE x
sqr_float(x) == fmul(x, x)
lch_chroma_float(l, sat) == fmul(sat, l)
Lc(l, c) == [l |-> l, c |-> c]
\* sqr(lch0.l - lch1.l) + sqr(lch0.c) + sqr(lch1.c) - 2.0f * lch0.c * lch1.c * 1
distance_radicand(lch0, lch1) ==
    fsub(fadd(fadd(sqr_float(fsub(lch0.l, lch1.l)), sqr_float(lch0.c)), sqr_float(lch1.c)),
         fmul(fmul(<<2, 0>>, lch0.c), lch1.c))
lch_distance_float(lch0, lch1) ==
    IF distance_radicand(lch0, lch1)[1] < 0 THEN [nan |-> TRUE, v |-> DyZero]
    ELSE [nan |-> FALSE, v |-> fsqrt(distance_radicand(lch0, lch1))]
\* std::max(0.0f, sqr(tmp) - sqr(lcht.l - lch.l) - sqr(lch.c) + sqr(sd)) with
\* tmp = lch.c * cos(0)
uniform_root_term(l, lch, sd) ==
    fmax(DyZero, fadd(fsub(fsub(sqr_float(lch.c), sqr_float(fsub(l, lch.l))),
                           sqr_float(lch.c)),
                      sqr_float(sd)))
\* lcht_cs[0..3]
uniform_candidates(s, l, lch0, lch1, D) ==
    << fadd(lch0.c, fsqrt(uniform_root_term(l, lch0, fmul(s, D)))),
       fsub(lch0.c, fsqrt(uniform_root_term(l, lch0, fmul(s, D)))),
       fadd(lch1.c, fsqrt(uniform_root_term(l, lch1, fmul(fsub(DyOne, s), D)))),
       fsub(lch1.c, fsqrt(uniform_root_term(l, lch1, fmul(fsub(DyOne, s), D)))) >>
\* !(lcht_cs[i] < min_c || lcht_cs[i] > max_c)
uniform_valid(c, lch0, lch1) ==
    ~(fless(c, fmin(lch0.c, lch1.c)) \/ fless(fmax(lch0.c, lch1.c), c))
\* the sum of the deviations of the two distances
error_of(d0, d1, s, D) ==
    IF d0.nan \/ d1.nan THEN [nan |-> TRUE, v |-> DyZero]
    ELSE [nan |-> FALSE,
          v |-> fadd(fabs(fsub(d0.v, fmul(s, D))),
                     fabs(fsub(d1.v, fmul(fsub(DyOne, s), D))))]
solution_error(c, s, l, lch0, lch1, D) ==
    error_of(lch_distance_float(lch0, Lc(l, c)), lch_distance_float(lch1, Lc(l, c)), s, D)
\* solution_error < min_solution_error
error_less(x, y) == ~x.nan /\ ~y.nan /\ fless(x.v, y.v)
\* if (min_solution_error_index == -1 || solution_error < min_solution_error)
replaces_best(index, err, min_err) == index = -1 \/ error_less(err, min_err)
RECURSIVE best_solution(_, _, _, _, _)
\* the loop over the four solutions from solution k on: the index it ends with
best_solution(k, index, min_err, valid, errs) ==
    IF k > 3 THEN index
    ELSE IF valid[k + 1] /\ replaces_best(index, errs[k + 1], min_err)
    THEN best_solution(k + 1, k, errs[k + 1], valid, errs)
    ELSE best_solution(k + 1, index, min_err, valid, errs)
\* what the loop leaves: the solutions, which are valid, their errors, and
\* the chroma returned
uniform_choice(cs, valid, errs, lch0, lch1) ==
    [cs |-> cs, valid |-> valid, errs |-> errs,
     min_c |-> fmin(lch0.c, lch1.c), max_c |-> fmax(lch0.c, lch1.c),
     index |-> best_solution(0, -1, [nan |-> FALSE, v |-> flit(99999, 10)], valid, errs),
     c |-> IF best_solution(0, -1, [nan |-> FALSE, v |-> flit(99999, 10)], valid, errs) = -1
           THEN fmul(<<1, 1>>, fadd(lch0.c, lch1.c))
           ELSE cs[best_solution(0, -1, [nan |-> FALSE, v |-> flit(99999, 10)],
                                 valid, errs) + 1]]
uniform_solutions(cs, s, l, lch0, lch1, D) ==
    uniform_choice(cs, [k \in 1..4 |-> uniform_valid(cs[k], lch0, lch1)],
                   [k \in 1..4 |-> IF uniform_valid(cs[k], lch0, lch1)
                                    THEN solution_error(cs[k], s, l, lch0, lch1, D)
                                    ELSE [nan |-> FALSE, v |-> DyZero]],
                   lch0, lch1)
uniform_at(s, l, lch0, lch1, D) ==
    uniform_solutions(uniform_candidates(s, l, lch0, lch1, D), s, l, lch0, lch1, D)
\* lch_compute_uniform_lc(t, t0, t1, lch0, lch1, D, hue) for lch0.h = lch1.h = hue
lch_compute_uniform_lc(t, t0, t1, lch0, lch1, D) ==
    uniform_at(fquot(fsub(t, t0), fsub(t1, t0)),
               fadd(fmul(fsub(DyOne, fquot(fsub(t, t0), fsub(t1, t0))), lch0.l),
                    fmul(fquot(fsub(t, t0), fsub(t1, t0)), lch1.l)),
               lch0, lch1, D)
\* the points lch_00, lch_05 and lch_10 of PLSequentialLightness
lightness_points(lightness_range, saturation) ==
    LET l00 == fmul(fsub(DyOne, lightness_range), <<100, 0>>)
        l10 == fmul(lightness_range, <<100, 0>>)
        l05 == fadd(fmul(<<1, 1>>, l00), fmul(<<1, 1>>, l10))
    IN << Lc(l00, lch_chroma_float(l00, DyZero)),
          Lc(l05, lch_chroma_float(l05, fmul(<<5, 0>>, saturation))),
          Lc(l10, lch_chroma_float(l10, DyZero)) >>
\* the call of lch_compute_uniform_lc entry ii of PLSequentialLightness makes
uniform_lightness_call(t, pts) ==
    IF fleq(t, <<1, 1>>)
    THEN lch_compute_uniform_lc(t, DyZero, <<1, 1>>, pts[1], pts[2],
                                lch_distance_float(pts[1], pts[2]).v)
    ELSE lch_compute_uniform_lc(t, <<1, 1>>, DyOne, pts[2], pts[3],
                                lch_distance_float(pts[2], pts[3]).v)
\* the points lch_00 and lch_10 of PLSequentialSaturation
saturation_points(saturation_range, lightness, saturation) ==
    LET l == fmax(flit(1, 100), fmul(lightness, <<100, 0>>))
    IN << Lc(l, lch_chroma_float(l, fsub(DyOne, saturation_range))),
          Lc(l, lch_chroma_float(l, fmul(fmul(saturation_range, <<5, 0>>), saturation))) >>
uniform_saturation_call(t, pts) ==
    lch_compute_uniform_lc(t, DyZero, DyOne, pts[1], pts[2],
                           lch_distance_float(pts[1], pts[2]).v)
\* the maps the model runs the two drivers for: n, and the ranges,
\* saturations and lightnesses in percent
UniformCounts == 2..(MaxN + 1)
UniformRanges == {70, 90, 95, 100}
UniformSaturations == {35, 45, 100}
UniformLightnesses == {50, 100}

\* ------------------------------------------------------- the hue offset
\* float M = std::fmod(pi + h1 - h0, twopi) - pi, of mix_hue
mix_hue_offset(h0, h1) == fmod(pi + h1 - h0, twopi) - pi
\* the hues mix_hue is asked for, in [0, 2 pi), and the weights in percent
MixHues == {0, 100, BrightPointHue, 3000, pi, 4641, 4700, 5500, 6200, twopi - 1}
MixAlphas == {0, 15, 50, 100}

\* ------------------------------------------------- the default contrast
\* std::min(0.88f, 0.34f + 0.06f * n), of BrewerSequential and of
\* BrewerDiverging alike
DefaultContrastForSmallN_float(nn) ==
    fmin(flit(88, 100), fadd(flit(34, 100), fmul(flit(6, 100), <<int_to_float(nn), 0>>)))
\* const float BrewerDivergingDefaultContrast = 0.88f, in percent
BrewerDivergingDefaultContrast == 88
\* the contrast the command line passes on when none was given, with the
\* mutation "the constant for every n"
default_contrast_float_constant(type, nn) == flit(88, 100)
default_contrast_float(type, nn) ==
    IF type = "brewer_seq"
    THEN (IF nn <= 9 THEN DefaultContrastForSmallN_float(nn)
          ELSE flit(BrewerSequentialDefaultContrast, 100))
    ELSE (IF nn <= 9 THEN DefaultContrastForSmallN_float(nn)
          ELSE flit(BrewerDivergingDefaultContrast, 100))
\* the numbers of colours the default contrast is asked for
ContrastCounts == 2..16

InitFn ==
    /\ nanConv = "0"
    /\ intMul = "wrap"
    /\ EngineIdle
    /\ CliStart
    /\ result = <<>>
    /\ ProcIdle
    /\ GuiIdle
    /\ ThreadsIdle
    /\ \/ \E h \in HueQueries :
            query = [fn |-> "most_saturated_in_srgb", hue |-> h, n |-> 0, i |-> 0]
       \/ \E c \in CellQueries :
            /\ c[2] < c[1]
            /\ query = [fn |-> "cell_center", hue |-> 0, n |-> c[1], i |-> c[2]]
       \/ \E h0 \in HueFloats, h1 \in HueFloats :
            query = [fn |-> "hue_diff", h0 |-> h0, h1 |-> h1]
       \/ \E nn \in UniformCounts, rng \in UniformRanges, sat \in UniformSaturations :
            \E ii \in 0..(nn - 1) :
              \/ query = [fn |-> "PLSequentialLightness", n |-> nn, i |-> ii,
                          range |-> rng, saturation |-> sat, lightness |-> 0]
              \/ \E li \in UniformLightnesses :
                   query = [fn |-> "PLSequentialSaturation", n |-> nn, i |-> ii,
                            range |-> rng, saturation |-> sat, lightness |-> li]
       \/ \E h0 \in MixHues, h1 \in MixHues, alpha \in MixAlphas :
            query = [fn |-> "mix_hue", alpha |-> alpha, h0 |-> h0, h1 |-> h1]
       \/ \E type \in {"brewer_seq", "brewer_div"}, nn \in ContrastCounts :
            query = [fn |-> "default_contrast", type |-> type, n |-> nn]
       \/ \E lambda \in Lambdas :
            query = [fn |-> "color_matching_function", lambda |-> lambda]
       \/ \E lambda \in visited_wavelengths(360) :
            query = [fn |-> "PLSequentialBlackBody", lambda |-> lambda]
       \/ \E t \in MultiHueTs, a \in MultiHueLists :
            query = [fn |-> "multi_hue_get", t |-> t, a |-> a]
       \/ \E ch \in HueFloats, c \in BlendContrasts, br \in BlendBrightnesses :
            query = [fn |-> "qualitative_lightness", ch |-> ch,
                     contrast |-> flit(c, 100), brightness |-> flit(br, 100)]

\* s_max or get_color_points calls most_saturated_in_srgb(hue)
ApplyMostSaturated ==
    /\ result = <<>>
    /\ query.fn = "most_saturated_in_srgb"
    /\ result' = most_saturated_in_srgb(query.hue)
    /\ UNCHANGED <<engineVars, cliVars, procVars, guiVars, thrVars, query>>

\* a loop body computes float t = (i + 0.5f) / n
ApplyCellCenter ==
    /\ result = <<>>
    /\ query.fn = "cell_center"
    /\ result' = [t |-> cell_center(query.i, query.n)]
    /\ UNCHANGED <<engineVars, cliVars, procVars, guiVars, thrVars, query>>

FnStep == UNCHANGED <<engineVars, cliVars, procVars, guiVars, thrVars, query>>
\* get_colormap_entry-like callers take hue_diff of two hues, in either order
ApplyHueDiff ==
    /\ result = <<>>
    /\ query.fn = "hue_diff"
    /\ result' = [d |-> hue_diff_float(query.h0, query.h1),
                  back |-> hue_diff_float(query.h1, query.h0)]
    /\ FnStep
\* the loop body of BrewerQualitative computes alpha and cl for the hue ch
ApplyQualitativeLightness ==
    /\ result = <<>>
    /\ query.fn = "qualitative_lightness"
    /\ result' = qualitative_lightness(query.ch, query.contrast, query.brightness)
    /\ FnStep

\* one body of PLSequentialLightness's loop, to the chroma of the entry
ApplyUniformLightness ==
    /\ result = <<>>
    /\ query.fn = "PLSequentialLightness"
    /\ result' = uniform_lightness_call(cell_center(query.i, query.n),
                      lightness_points(flit(query.range, 100), flit(query.saturation, 100)))
    /\ FnStep
\* one body of PLSequentialSaturation's loop, to the chroma of the entry
ApplyUniformSaturation ==
    /\ result = <<>>
    /\ query.fn = "PLSequentialSaturation"
    /\ result' = uniform_saturation_call(cell_center(query.i, query.n),
                      saturation_points(flit(query.range, 100), flit(query.lightness, 100),
                                        flit(query.saturation, 100)))
    /\ FnStep

\* multi_hue_compute calls multi_hue_get(t, hues, hue_values, hue_positions)
ApplyMultiHueGet ==
    /\ result = <<>>
    /\ query.fn = "multi_hue_get"
    /\ result' = [hue |-> multi_hue_get(query.t, query.a),
                  i |-> multi_hue_index(0, query.t, query.a),
                  reads |-> multi_hue_reads(query.t, query.a),
                  width |-> multi_hue_width(query.t, query.a)]
    /\ FnStep

\* color_matching_function(lambda) for any integer lambda
ApplyColorMatching ==
    /\ result = <<>>
    /\ query.fn = "color_matching_function"
    /\ \E garbage \in Garbage :
         result' = color_matching_function(query.lambda, garbage)
    /\ FnStep

\* one step of the wavelength loop of PLSequentialBlackBody
ApplyBlackBodyWavelength ==
    /\ result = <<>>
    /\ query.fn = "PLSequentialBlackBody"
    /\ \E garbage \in Garbage :
         result' = color_matching_function(query.lambda, garbage)
    /\ FnStep

\* if (contrast < 0.0f) contrast = ...: the default of a Brewer map
ApplyDefaultContrast ==
    /\ result = <<>>
    /\ query.fn = "default_contrast"
    /\ result' = [contrast |-> default_contrast_float(query.type, query.n)]
    /\ FnStep

\* get_color_points calls mix_hue(warmth, hue, pb_hue)
ApplyMixHue ==
    /\ result = <<>>
    /\ query.fn = "mix_hue"
    /\ result' = [M |-> mix_hue_offset(query.h0, query.h1),
                  hue |-> mix_hue(query.alpha, query.h0, query.h1)]
    /\ FnStep

NextFn ==
    \/ ApplyMixHue
    \/ ApplyDefaultContrast
    \/ ApplyColorMatching
    \/ ApplyBlackBodyWavelength
    \/ ApplyMultiHueGet
    \/ ApplyUniformLightness
    \/ ApplyUniformSaturation
    \/ ApplyMostSaturated
    \/ ApplyCellCenter
    \/ ApplyHueDiff
    \/ ApplyQualitativeLightness

SpecFn == InitFn /\ [][NextFn]_vars

\* ------------------------- the statics, and the entries of a call in any order
\* driver calls a process makes at most
MaxCalls == 3
\* the guard of a static's initialiser with the mutation "always"
needs_init_always(x) == TRUE
\* if (pb.l < 0.0f), if (ylch.l < 0.0f), if (rs < 0.0f)
needs_init(x) == x < 0
\* get_bright_point(): the static pb is set on the first call
get_bright_point(c) ==
    IF needs_init(c.pb[1])
    THEN [c EXCEPT !.pb = BrightPoint, !.inits.pb = @ + 1] ELSE c
\* the declaration of static float h[] in most_saturated_in_srgb: the array
\* is initialised the first time control passes it
pass_corner_hues(c) ==
    IF c.h = <<>> THEN [c EXCEPT !.h = CornerHues, !.inits.h = @ + 1] ELSE c
\* the statics ylch and rs at the head of BrewerQualitative
qualitative_statics(c) ==
    LET y == IF needs_init(c.ylch[1])
             THEN [c EXCEPT !.ylch = YellowLch, !.inits.ylch = @ + 1] ELSE c
    IN IF needs_init(y.rs)
       THEN [y EXCEPT !.rs = RedSaturation, !.inits.rs = @ + 1] ELSE y
\* a driver up to its loop: BrewerSequential and BrewerDiverging call
\* get_bright_point and get_color_points, which calls most_saturated_in_srgb;
\* BrewerQualitative sets ylch and rs; PLSequentialRainbow has no static
before_loop(d, c) ==
    CASE d \in {"BrewerSequential", "BrewerDiverging"} -> pass_corner_hues(get_bright_point(c))
      [] d = "BrewerQualitative" -> qualitative_statics(c)
      [] OTHER -> c
\* whether the body of entry k calls s_max, and so most_saturated_in_srgb
calls_s_max(d, k, nn) ==
    \/ d = "BrewerQualitative"
    \/ d = "BrewerDiverging" /\ is_middle(k, nn) /\ nn <= 9
\* the bytes of the buffer entry k is stored to, with the mutation
\* "one byte more"
entry_bytes_overlapping(k) == {3 * k, 3 * k + 1, 3 * k + 2, 3 * k + 3}
\* luv_to_colormap(c, colormap + 3 * i) stores colormap[0..2]
entry_bytes(k) == {3 * k, 3 * k + 1, 3 * k + 2}
\* the body of entry k of job j run on the state s = [cache, palette, nclip,
\* late]: what is stored is the entry's number, the hue and the most
\* saturated colour s_max works with, and the statics the body read
run_entry(j, s, k) ==
    LET smax == calls_s_max(j.name, k, j.n)
        c == IF smax THEN pass_corner_hues(s.cache) ELSE s.cache
        ch == IF j.name = "BrewerQualitative"
              THEN brewer_qualitative_hue(cell_center(k, j.n), j.a)
              ELSE BrightPointHue
        stored == [by |-> j.name, i |-> k,
                   pmid |-> IF smax THEN most_saturated_in_srgb(ch).srgb ELSE <<>>,
                   read |-> CASE j.name = "BrewerQualitative" -> <<c.ylch, c.rs, c.h>>
                              [] j.name \in {"BrewerSequential", "BrewerDiverging"} ->
                                   <<j.start.pb, c.h>>
                              [] OTHER -> <<>>]
    IN [cache |-> c,
        palette |-> [at \in DOMAIN s.palette |->
                        IF at \in entry_bytes(k) THEN <<stored, at - 3 * k>>
                        ELSE s.palette[at]],
        nclip |-> IF k \in j.clips THEN s.nclip + 1 ELSE s.nclip,
        late |-> IF c.inits.h > s.cache.inits.h THEN s.late \cup {"h"} ELSE s.late]
RECURSIVE run_in_order(_, _, _)
\* for (int i = 0; i < n; i++): the entries from k on, in ascending order
run_in_order(j, s, k) ==
    IF k >= j.n THEN s ELSE run_in_order(j, run_entry(j, s, k), k + 1)
\* the state of a call when its loop starts
loop_start(j) ==
    [cache |-> j.start, palette |-> [at \in 0..(3 * j.n - 1) |-> <<>>],
     nclip |-> 0, late |-> {}]
\* the arguments of the calls: hue 0, divergence 240 degrees
ProcArg == [NoArg EXCEPT !.hue = 0, !.divergence = 4189]
ProcDrivers ==
    {"BrewerSequential", "BrewerDiverging", "BrewerQualitative", "PLSequentialRainbow"}

\* the process calls a driver, which runs up to its loop; clips are the
\* entries luv_to_colormap will find outside the sRGB cube
ProcCall ==
    \E d \in ProcDrivers, nn \in 2..3 :
      \E cl \in SUBSET (0..(nn - 1)) :
        /\ job = <<>>
        /\ jobs < MaxCalls
        /\ LET j == [name |-> d, n |-> nn, a |-> ProcArg, clips |-> cl,
                     start |-> before_loop(d, cache)]
           IN /\ job' = j
              /\ cache' = j.start
              /\ palette' = loop_start(j).palette
        /\ pending' = 0..(nn - 1)
        /\ order' = <<>>
        /\ late' = {}
        /\ nclip' = 0
        /\ jobs' = jobs + 1
        /\ UNCHANGED <<engineVars, cliVars, fnVars, guiVars, thrVars>>
\* one entry of the loop, any of those that have not run
ProcEntry ==
    \E k \in pending :
      LET s == run_entry(job, [cache |-> cache, palette |-> palette,
                               nclip |-> nclip, late |-> late], k)
      IN /\ job # <<>>
         /\ cache' = s.cache
         /\ palette' = s.palette
         /\ nclip' = s.nclip
         /\ late' = s.late
         /\ pending' = pending \ {k}
         /\ order' = Append(order, k)
         /\ UNCHANGED <<engineVars, cliVars, fnVars, guiVars, thrVars, job, jobs>>
\* the loop is through: return clipped
ProcReturn ==
    /\ job # <<>>
    /\ pending = {}
    /\ job' = <<>>
    /\ order' = <<>>
    /\ late' = {}
    /\ palette' = <<>>
    /\ nclip' = 0
    /\ UNCHANGED <<engineVars, cliVars, fnVars, guiVars, thrVars, cache, pending, jobs>>

InitProc ==
    /\ nanConv = "0"
    /\ intMul = "wrap"
    /\ EngineIdle
    /\ CliStart
    /\ SideIdle
NextProc ==
    \/ ProcCall
    \/ ProcEntry
    \/ ProcReturn
SpecProc == InitProc /\ [][NextProc]_vars

\* ------------------------------------- two threads and one static triplet
\* The engine takes no lock and its statics are plain floats.  Two threads
\* that use a static at once race on its members; the model interleaves
\* their member accesses, each access being one step.
Threads == {1, 2}
\* the statics guarded by a test of their first member
Statics == {"pb", "ylch"}
\* the value the initialiser computes
static_value(st) == IF st = "pb" THEN BrightPoint ELSE YellowLch
\* the members a caller reads after the test, in order: return pb copies x,
\* y and z; BrewerQualitative reads ylch.l and later ylch.h
static_reads(st) == IF st = "pb" THEN <<1, 2, 3>> ELSE <<1, 3>>
\* the members a thread has not read yet
Unread == <<"unread", "unread", "unread">>

\* a thread evaluates if (pb.l < 0.0f), if (ylch.l < 0.0f)
ThreadTest(t) ==
    /\ threads # <<>>
    /\ threads.pc[t] = "test"
    /\ threads' = [threads EXCEPT
                     !.pc[t] = IF needs_init(threads.mem[1]) THEN "assign" ELSE "read",
                     !.at[t] = 1]
    /\ UNCHANGED <<engineVars, cliVars, fnVars, procVars, guiVars>>

\* triplet::operator= stores one member: x = t.x; y = t.y; z = t.z
ThreadAssign(t) ==
    /\ threads # <<>>
    /\ threads.pc[t] = "assign"
    /\ threads' = [threads EXCEPT
                     !.mem[threads.at[t]] = static_value(threads.static)[threads.at[t]],
                     !.pc[t] = IF threads.at[t] = 3 THEN "read" ELSE "assign",
                     !.at[t] = IF threads.at[t] = 3 THEN 1 ELSE @ + 1]
    /\ UNCHANGED <<engineVars, cliVars, fnVars, procVars, guiVars>>

\* the caller reads one member of the static
ThreadRead(t) ==
    /\ threads # <<>>
    /\ threads.pc[t] = "read"
    /\ LET members == static_reads(threads.static)
           member == members[threads.at[t]]
       IN threads' = [threads EXCEPT
                        !.got[t][member] = threads.mem[member],
                        !.pc[t] = IF threads.at[t] = Len(members) THEN "done" ELSE "read",
                        !.at[t] = IF threads.at[t] = Len(members) THEN @ ELSE @ + 1]
    /\ UNCHANGED <<engineVars, cliVars, fnVars, procVars, guiVars>>

\* both threads are about to make the first use of the static
InitThreads ==
    /\ nanConv = "0"
    /\ intMul = "wrap"
    /\ EngineIdle
    /\ CliStart
    /\ query = <<>>
    /\ result = <<>>
    /\ ProcIdle
    /\ GuiIdle
    /\ \E st \in Statics :
         threads = [static |-> st, mem |-> Uncomputed,
                    pc |-> [t \in Threads |-> "test"],
                    at |-> [t \in Threads |-> 1],
                    got |-> [t \in Threads |-> Unread]]
NextThreads ==
    \E t \in Threads : ThreadTest(t) \/ ThreadAssign(t) \/ ThreadRead(t)
SpecThreads == InitThreads /\ [][NextThreads]_vars

\* ------------------------------------------------ the colour map widgets
\* The spin box of a control shows a decimal number k / per, per being 1, 10
\* or 100 with log10(1 / step) decimals; the model keeps k.  What the widget
\* computes with is binary32.
\* changes a user makes at most
MaxChanges == 2
\* new ColorMapCombinedSliderSpinBox(lo / per, hi / per, 1 / per) for the
\* parameter name, reset to the float def; angle: the parameter is in
\* radians, the control in degrees
Ctl(name, lo, hi, per, def, angle) ==
    [name |-> name, lo |-> lo, hi |-> hi, per |-> per, minval |-> flit(lo, per),
     step |-> flit(1, per), def |-> def, angle |-> angle]
Unit(name, def) == Ctl(name, 0, 100, 100, flit(def, 100), FALSE)
Range(name, def) == Ctl(name, 70, 100, 100, flit(def, 100), FALSE)
Angle(name, def) == Ctl(name, 0, 360, 1, def, TRUE)
\* the float literals 4.18879020479f (240 degrees), 0.349065850399f (20
\* degrees) and 0.523598775598f (30 degrees)
Rad240 == <<4392265, 20>>
Rad20 == <<5856353, 24>>
Rad30 == <<4392265, 23>>
\* the slider/spin box pairs of a widget in the order reset() sets them, with
\* the ColorMap::...Default... constant of each
WidgetControls(w) ==
    CASE w = "BrewerSequential" ->
           << Angle("hue", Rad240), Unit("warmth", BrewerSequentialDefaultWarmth),
              Unit("contrast", BrewerSequentialDefaultContrast),
              Unit("saturation", BrewerSequentialDefaultSaturation),
              Unit("brightness", BrewerSequentialDefaultBrightness) >>
      [] w = "BrewerDiverging" ->
           << Angle("hue", Rad240), Angle("divergence", Rad240), Unit("warmth", 15),
              Unit("contrast", 88), Unit("saturation", 60), Unit("brightness", 75) >>
      [] w = "BrewerQualitative" ->
           << Angle("hue", DyZero), Angle("divergence", Rad240), Unit("contrast", 50),
              Unit("saturation", 50), Unit("brightness", 80) >>
      [] w = "PUSequentialLightness" ->
           << Range("lightness_range", 95), Range("saturation_range", 95),
              Unit("saturation", 45), Angle("hue", Rad20) >>
      [] w = "PUSequentialSaturation" ->
           << Range("saturation_range", 95), Unit("lightness", 50),
              Unit("saturation", 45), Angle("hue", Rad20) >>
      [] w = "PUSequentialRainbow" ->
           << Range("lightness_range", 95), Range("saturation_range", 95),
              Angle("hue", DyZero),
              Ctl("rotations", -50, 50, 10,
                  flit(PUSequentialRainbowDefaultRotations, 100), FALSE),
              Ctl("saturation", 0, 50, 10, flit(11, 10), FALSE) >>
      [] w = "PUSequentialMultiHue" ->
           << Range("lightness_range", 95), Range("saturation_range", 95),
              Unit("saturation", 38) >>
      [] w = "PUDivergingLightness" ->
           << Range("lightness_range", 95), Range("saturation_range", 95),
              Unit("saturation", 45), Angle("hue", Rad20), Angle("divergence", Rad240) >>
      [] w = "PUDivergingSaturation" ->
           << Range("saturation_range", 95), Unit("lightness", 50),
              Unit("saturation", 45), Angle("hue", Rad20), Angle("divergence", Rad240) >>
      [] w = "PUQualitativeHue" ->
           << Angle("hue", DyZero), Angle("divergence", Rad240),
              Unit("lightness", PUQualitativeHueDefaultLightness),
              Unit("saturation", PUQualitativeHueDefaultSaturation) >>
      [] w = "CubeHelix" ->
           << Ctl("hue", 0, 180, 1, Rad30, TRUE),
              Ctl("rotations", -50, 50, 10, flit(-15, 10), FALSE),
              Ctl("saturation", 0, 20, 10, flit(12, 10), FALSE),
              Ctl("gamma", 3, 30, 10, flit(1, 1), FALSE) >>
      [] w = "McNames" -> << Ctl("periods", 1, 50, 10, flit(2, 1), FALSE) >>
      [] OTHER -> << >>
\* the widgets; the black-body widget is left out: its reset() names
\* ColorMap::PUSequentialBlackBodyDefaultTemperatureRange, ...LightnessRange
\* and ...SaturationRange, which colormap.hpp does not declare
Widgets ==
    { "BrewerSequential", "BrewerDiverging", "BrewerQualitative",
      "PUSequentialLightness", "PUSequentialSaturation", "PUSequentialRainbow",
      "PUSequentialMultiHue", "PUDivergingLightness", "PUDivergingSaturation",
      "PUQualitativeHue", "CubeHelix", "Moreland", "McNames" }
\* the controls a widget object holds, by parameter name
ControlNames(g) == DOMAIN g.ctl
ControlOf(g, name) == g.ctl[name]
\* the controls the constructor of a widget creates
new_controls(cs) ==
    [c \in {cs[k].name : k \in DOMAIN cs} |-> cs[CHOOSE k \in DOMAIN cs : cs[k].name = c]]
\* the value reset() passes to _n_spinbox->setValue
reset_n(w) ==
    IF w \in {"BrewerDiverging", "PUDivergingLightness", "PUDivergingSaturation", "Moreland"}
    THEN 257 ELSE 256
\* qRadiansToDegrees(r) = r * float(180 / M_PI) and
\* qDegreesToRadians(d) = d * float(M_PI / 180)
qRadiansToDegrees(r) == fmul(r, <<15019745, 18>>)
qDegreesToRadians(d) == fmul(d, <<9370165, 29>>)
\* ColorMapCombinedSliderSpinBox::value(): the float of the spin box's number
value(c, k) == flit(k, c.per)
\* spinbox->setValue(v): the number is rounded to the decimals of the box and
\* bounded by its range
spinbox_setValue(c, v) ==
    LET p == Abs(v[1]) * c.per
        d == 2^(v[2])
        k == IF (p % d) >= d - (p % d) THEN p \div d + 1 ELSE p \div d
    IN Max(c.lo, Min(c.hi, IF v[1] < 0 THEN -k ELSE k))
\* slider->setValue((v - minval) / step), the quotient converted to int
slider_setValue(c, v) == float_to_int(fquot(fsub(v, c.minval), c.step))
\* float v = i * step + minval of sliderChanged()
slider_value(c, at) == fadd(fmul(<<at, 0>>, c.step), c.minval)
\* signals that run a slot from within a slot, at most
MaxNesting == 2
\* a ColorMapCombinedSliderSpinBox between two slots: _update_lock, the
\* number of the spin box, the position of the slider, the controls as they
\* were at each emit valueChanged, and the slots that found the lock set
Control(k, at) ==
    [lock |-> FALSE, spin |-> k, slider |-> at, emitted |-> << >>, suppressed |-> 0]
\* the test of sliderChanged() and spinboxChanged() with the mutation "run
\* always"
slot_runs_always(lock) == TRUE
\* if (!_update_lock)
slot_runs(lock) == ~lock
RECURSIVE run_slot(_, _, _, _)
RECURSIVE set_spinbox(_, _, _, _)
RECURSIVE set_slider(_, _, _, _)
\* the body of a slot: st is the control under the lock, k and at are the
\* number and the position the slot sets; the value is the control after
\* _update_lock = false; emit valueChanged(value())
slot_body(slot, c, st, k, at, depth) ==
    CHOOSE r \in { [set EXCEPT !.lock = FALSE,
                               !.emitted = Append(@, <<set.spin, set.slider>>)] :
                     set \in { IF slot = "sliderChanged"
                               THEN set_spinbox(c, st, k, depth)
                               ELSE set_slider(c, st, at, depth) } } : TRUE
\* sliderChanged() or spinboxChanged(), run by valueChanged of its control:
\* under the lock it sets the other control from float v = i * step +
\* minval or to int i = (v - minval) / step
run_slot(slot, c, st, depth) ==
    IF depth = 0 \/ ~slot_runs(st.lock) THEN [st EXCEPT !.suppressed = @ + 1]
    ELSE IF slot = "sliderChanged"
    THEN CHOOSE r \in { slot_body(slot, c, [st EXCEPT !.lock = TRUE], k, 0, depth) :
                          k \in {spinbox_setValue(c, slider_value(c, st.slider))} } : TRUE
    ELSE CHOOSE r \in { slot_body(slot, c, [st EXCEPT !.lock = TRUE], 0, at, depth) :
                          at \in {slider_setValue(c, value(c, st.spin))} } : TRUE
\* spinbox->setValue(v), k being the number the box takes: a changed
\* number emits valueChanged(double), which runs spinboxChanged()
set_spinbox(c, st, k, depth) ==
    IF k = st.spin THEN st
    ELSE run_slot("spinboxChanged", c, [st EXCEPT !.spin = k], depth - 1)
\* slider->setValue(at): a changed position emits valueChanged(int), which
\* runs sliderChanged()
set_slider(c, st, at, depth) ==
    IF at = st.slider THEN st
    ELSE run_slot("sliderChanged", c, [st EXCEPT !.slider = at], depth - 1)
\* ColorMapCombinedSliderSpinBox::setValue(v)
combined_setValue(c, st, v) ==
    CHOOSE r \in { [after EXCEPT !.lock = FALSE] :
                     after \in { set_slider(c, spun, at, MaxNesting) :
                                  spun \in { set_spinbox(c, [st EXCEPT !.lock = TRUE], k,
                                                         MaxNesting) :
                                             k \in {spinbox_setValue(c, v)} },
                                  at \in {slider_setValue(c, v)} } } : TRUE
\* the float reset() passes to the control's setValue
reset_value(c) == IF c.angle THEN qRadiansToDegrees(c.def) ELSE c.def
\* the hue of a list item or of the hue button: hueToColor(hue) fills a pixmap
\* and colorToHue reads a pixel of it back, 255 steps per sixth of the circle
pixel_hue(hue) == SDiv(SDiv(hue * 1530, twopi) * twopi, 1530)
\* the test of update() with the mutation "emit always"
update_emits_always(lock) == TRUE
\* if (!_update_lock)
update_emits(lock) == ~lock
\* update(): emit colorMapChanged() unless _update_lock is set; s is the
\* record of the running slot
update(g, s) ==
    IF update_emits(g.lock)
    THEN [s EXCEPT !.emitted = Append(@, IF g.lock THEN "locked" ELSE "unlocked")]
    ELSE s
\* a widget whose controls have been created and not yet reset: a spin box
\* starts at the lower end of its range, a slider at 0
created(w) ==
    LET ctl == new_controls(WidgetControls(w))
    IN
    [w |-> w, n |-> 2, lock |-> FALSE, ctl |-> ctl,
     spin |-> [c \in DOMAIN ctl |-> ctl[c].lo],
     slider |-> [c \in DOMAIN ctl |-> 0],
     color |-> << <<0, 0, 0>>, <<0, 0, 0>> >>,
     list |-> << >>, pos |-> 0, button |-> pixel_hue(0)]
\* reset(): the widget and the record of the slot when it has run
reset(g) ==
    LET s0 == [slot |-> "reset", emitted |-> << >>, set |-> << >>]
        g1 == [g EXCEPT !.lock = TRUE]
        \* _n_spinbox->setValue emits valueChanged(int), connected to
        \* update(), if the value changes
        s1 == IF g.n # reset_n(g.w) THEN update(g1, s0) ELSE s0
        \* ColorMapCombinedSliderSpinBox::setValue keeps its own lock, so
        \* that neither sliderChanged nor spinboxChanged emits valueChanged
        set == [c \in ControlNames(g) |->
                  combined_setValue(ControlOf(g, c), Control(g.spin[c], g.slider[c]),
                                    reset_value(ControlOf(g, c)))]
        g2 == [g1 EXCEPT
                 !.n = reset_n(g.w),
                 !.spin = [c \in ControlNames(g) |-> set[c].spin],
                 !.slider = [c \in ControlNames(g) |-> set[c].slider],
                 !.color = IF g.w = "Moreland"
                           THEN <<MorelandDefaultColor0, MorelandDefaultColor1>> ELSE @,
                 !.list = IF g.w = "PUSequentialMultiHue"
                          THEN << <<pixel_hue(0), 250>>, <<pixel_hue(1047), 750>> >> ELSE @]
        g3 == [g2 EXCEPT !.lock = FALSE]
    IN [gui |-> g3, sig |-> update(g3, [s1 EXCEPT !.set = set])]
\* parameters(): what the widget passes to its driver
parameters(g) ==
    [n |-> g.n,
     value |-> [c \in ControlNames(g) |->
                  LET ct == ControlOf(g, c)
                  IN IF ct.angle THEN qDegreesToRadians(value(ct, g.spin[c]))
                     ELSE value(ct, g.spin[c])],
     color |-> g.color, list |-> g.list]
\* the defaults of a method: the count of its reset() and the
\* ColorMap::...Default... constants
defaults(g) ==
    LET w == g.w
    IN
    [n |-> reset_n(w),
     value |-> [c \in ControlNames(g) |-> ControlOf(g, c).def],
     color |-> IF w = "Moreland" THEN <<MorelandDefaultColor0, MorelandDefaultColor1>>
               ELSE << <<0, 0, 0>>, <<0, 0, 0>> >>,
     list |-> IF w = "PUSequentialMultiHue" THEN << <<0, 250>>, <<1047, 750>> >> ELSE << >>]

\* the constructor of a widget: it creates the controls and calls reset()
InitGui ==
    /\ nanConv = "0"
    /\ intMul = "wrap"
    /\ EngineIdle
    /\ CliStart
    /\ query = <<>>
    /\ result = <<>>
    /\ ProcIdle
    /\ ThreadsIdle
    /\ changes = 0
    /\ \E w \in Widgets :
         \E g \in {created(w)} :
           \E r \in {reset(g)} :
             /\ gui = r.gui
             /\ sig = r.sig
GuiStep == UNCHANGED <<engineVars, cliVars, fnVars, procVars, thrVars>>
\* a change by the user runs one slot, which calls update()
Changed(g, slot) ==
    /\ changes < MaxChanges
    /\ changes' = changes + 1
    /\ gui' = g
    /\ sig' = update(g, [slot |-> slot, emitted |-> << >>])
    /\ GuiStep
\* the user changes the number of colours: valueChanged(int) runs update()
ChangeN ==
    \E v \in {2, 100, 256, 257, 1024} :
        /\ v # gui.n
        /\ Changed([gui EXCEPT !.n = v], "n")
RECURSIVE updates(_, _, _)
\* update() run by each valueChanged(float) of a control
updates(g, s, times) == IF times = 0 THEN s ELSE updates(g, update(g, s), times - 1)
\* a change of control c by the user has run the slot, which left the
\* control as st
ControlChanged(c, slot, st) ==
    /\ changes < MaxChanges
    /\ changes' = changes + 1
    /\ gui' = [gui EXCEPT !.spin[c] = st.spin, !.slider[c] = st.slider]
    /\ sig' = updates(gui, [slot |-> slot, emitted |-> << >>, name |-> c,
                            control |-> st], Len(st.emitted))
    /\ GuiStep
\* the user edits a spin box: its valueChanged(double) runs spinboxChanged(),
\* which moves the slider and emits valueChanged(float)
SpinboxChanged ==
    \E c \in ControlNames(gui) :
      LET ct == ControlOf(gui, c)
      IN \E k \in {ct.lo, ct.lo + 1, ct.hi} :
           /\ k # gui.spin[c]
           /\ \E st \in {run_slot("spinboxChanged", ct, Control(k, gui.slider[c]),
                                    MaxNesting)} :
                 ControlChanged(c, "spinboxChanged", st)
\* the user moves a slider: its valueChanged(int) runs sliderChanged(), which
\* sets the spin box and emits valueChanged(float)
SliderChanged ==
    \E c \in ControlNames(gui) :
      LET ct == ControlOf(gui, c)
      IN \E at \in {0, 1, ct.hi - ct.lo} :
           /\ at # gui.slider[c]
           /\ \E st \in {run_slot("sliderChanged", ct, Control(gui.spin[c], at),
                                    MaxNesting)} :
                 ControlChanged(c, "sliderChanged", st)
\* Moreland: chooseColor0() and chooseColor1() with a valid colour
ChooseColor ==
    \E k \in 1..2, c \in ColorSamples :
        /\ gui.w = "Moreland"
        /\ Changed([gui EXCEPT !.color[k] = c], "chooseColor")
\* the multi-hue widget: the hue button, the position spin box (neither is
\* connected to update()), addHue() and removeHue()
HueButtonClicked ==
    \E hue \in {2094, 4189} :
        /\ gui.w = "PUSequentialMultiHue"
        /\ changes < MaxChanges
        /\ changes' = changes + 1
        /\ gui' = [gui EXCEPT !.button = pixel_hue(hue)]
        /\ sig' = [slot |-> "hueButtonClicked", emitted |-> << >>]
        /\ GuiStep
PosChanged ==
    \E v \in {0, 50, 100, 250, 1000} :
        /\ gui.w = "PUSequentialMultiHue"
        /\ v # gui.pos
        /\ changes < MaxChanges
        /\ changes' = changes + 1
        /\ gui' = [gui EXCEPT !.pos = v]
        /\ sig' = [slot |-> "", emitted |-> << >>]
        /\ GuiStep
\* An item of the hue list is <<hue, pos>>: its icon has the hue, its text is
\* QString::number(pos).  Texts are sequences of character codes.
\* the decimals of pos (in 1/1000) without trailing zeros
fraction_digits(v) ==
    IF v % 10 # 0 THEN <<(v \div 100) % 10, (v \div 10) % 10, v % 10>>
    ELSE IF v % 100 # 0 THEN <<(v \div 100) % 10, (v \div 10) % 10>>
    ELSE IF v % 1000 # 0 THEN <<(v \div 100) % 10>>
    ELSE << >>
\* QString::number(pos): "0", "0.25", "0.5", "1"
number_text(v) ==
    <<48 + v \div 1000>>
      \o (IF fraction_digits(v) = << >> THEN << >>
          ELSE <<46>> \o [k \in 1..Len(fraction_digits(v)) |-> 48 + fraction_digits(v)[k]])
RECURSIVE digits_value(_, _)
\* the value of the decimals t, the first of them worth unit
digits_value(t, unit) ==
    IF t = << >> THEN 0 ELSE (t[1] - 48) * unit + digits_value(Tail(t), unit \div 10)
\* item->text().toFloat(), in 1/1000
text_toFloat(t) ==
    (t[1] - 48) * 1000 + (IF Len(t) > 2 THEN digits_value(SubSeq(t, 3, Len(t)), 100) ELSE 0)
item_text(item) == number_text(item[2])
RECURSIVE text_less(_, _)
\* QListWidgetItem::operator<: text() < other.text(), by character codes
text_less(a, bb) ==
    IF bb = << >> THEN FALSE
    ELSE IF a = << >> THEN TRUE
    ELSE IF a[1] # bb[1] THEN a[1] < bb[1]
    ELSE text_less(Tail(a), Tail(bb))
\* one item put into a sorted list, before the items not less than it
insert_item(x, sorted) ==
    SelectSeq(sorted, LAMBDA y : text_less(item_text(y), item_text(x)))
      \o <<x>>
      \o SelectSeq(sorted, LAMBDA y : ~text_less(item_text(y), item_text(x)))
RECURSIVE sortItems(_)
\* _hue_list_widget->sortItems(): ascending by text, equal texts keep their
\* order
sortItems(list) ==
    IF Len(list) <= 1 THEN list ELSE insert_item(list[1], sortItems(Tail(list)))
\* the test of addHue()'s loop with the mutation "no item is at pos"
item_found_never(itemPos, pos) == FALSE
\* if (itemPos == pos)
item_found(itemPos, pos) == itemPos = pos
\* the list without item k; k = 0: delete of a null pointer
without_item(list, k) ==
    IF k = 0 THEN list ELSE SubSeq(list, 1, k - 1) \o SubSeq(list, k + 1, Len(list))
\* the item addHue()'s loop deletes: the first one at pos, 0 if none is
first_at(list, pos) ==
    IF \E k \in 1..Len(list) : item_found(text_toFloat(item_text(list[k])), pos)
    THEN CHOOSE k \in 1..Len(list) :
           /\ item_found(text_toFloat(item_text(list[k])), pos)
           /\ \A j \in 1..(k - 1) : ~item_found(text_toFloat(item_text(list[j])), pos)
    ELSE 0
\* the list after addHue(): the item at pos is deleted, the new item is
\* inserted at row 0, and the list is sorted
addHue(list, hue, pos) ==
    sortItems(<< <<hue, pos>> >> \o without_item(list, first_at(list, pos)))
\* parameters(): the arrays hue_values and hue_positions
hue_arrays(g) ==
    [hue_values |-> [k \in 1..Len(g.list) |-> g.list[k][1]],
     hue_positions |-> [k \in 1..Len(g.list) |-> text_toFloat(item_text(g.list[k]))]]
AddHue ==
    /\ gui.w = "PUSequentialMultiHue"
    /\ Changed([gui EXCEPT !.list = addHue(gui.list, gui.button, gui.pos)], "addHue")
\* removeHue() deletes the current item, if there is one
RemoveHue ==
    \E k \in 0..Len(gui.list) :
        /\ gui.w = "PUSequentialMultiHue"
        /\ Changed([gui EXCEPT !.list = without_item(@, k)], "removeHue")
\* reset() is called
Reset ==
    /\ \E r \in {reset(gui)} :
         /\ gui' = r.gui
         /\ sig' = r.sig
    /\ UNCHANGED changes
    /\ GuiStep
NextGui ==
    \/ ChangeN
    \/ SpinboxChanged
    \/ SliderChanged
    \/ ChooseColor
    \/ HueButtonClicked
    \/ PosChanged
    \/ AddHue
    \/ RemoveHue
    \/ Reset
SpecGui == InitGui /\ [][NextGui]_vars

\* ------------------------------------------------------------ properties
\* entry k of the buffer has all three bytes written
Written(k) == \A c \in 0..2 : colormap[3 * k + c] # -1
\* some channel of entry k was clamped by float_to_uchar
AnyClamped(k) == \E c \in 1..3 : ent[k].flags[c]
\* x * 255 rounds (halves away from zero) to less than 0 or more than 255,
\* that is x <= -0.5/255 or x >= 255.5/255
RoundsOutside(x) ==
    ~IsNaN(x) /\ (2 * x[2] <= -Res \/ 2 * x[2] >= 2 * 255 * Res + Res)

\* C1: when a driver has returned, the clip count is the number of entries
\* of the buffer with at least one clamped channel, each such entry counted
\* once, and lies in 0..n.
C1_ClipCountCountsEntries ==
    pc = "done" =>
        /\ ret = Cardinality({k \in 0..(n - 1) : AnyClamped(k)})
        /\ 0 <= ret /\ ret <= n
\* C1 witness: a map was returned in which an entry with all three channels
\* clamped is the only clamped entry, and the count is 1.
C1_Witness ==
    /\ pc = "done"
    /\ ret = 1
    /\ \E k \in 0..(n - 1) : \A c \in 1..3 : ent[k].flags[c]

C3_WritesStayInBuffer ==
    /\ ~oob
    /\ DOMAIN colormap = 0..(3 * n - 1)
    /\ pc = "done" => \A k \in 0..(n - 1) : Written(k)
\* C3 witness: a PLDiverging map of odd n has returned, its upper or lower
\* part being a mirror copy.
C3_Witness ==
    /\ pc = "done"
    /\ drv \in {"PLDivergingLightness", "PLDivergingSaturation"}
    /\ n % 2 = 1
    /\ \A k \in 0..(n - 1) : Written(k)

C7_EveryCountAtLeastTwo ==
    \A k \in DOMAIN calls : calls[k].count >= 2
\* C7 witness: PLDivergingLightness was entered with n >= 2 and has made both
\* of its sequential calls.
C7_Witness ==
    /\ drv = "PLDivergingLightness"
    /\ n >= 2
    /\ Len(calls) = 3

MirrorPair(k) ==
    /\ drv = "BrewerDiverging"
    /\ k < n \div 2
    /\ ent[k].by = "BrewerDiverging"
    /\ ent[n - 1 - k].by = "BrewerDiverging"
\* the float tt is within 2^-23 of (2k + 1) / n
NearCellCentre(tt, k) ==
    Abs(tt[1] * n - (2 * k + 1) * 2^(tt[2])) <= n * 2^(tt[2] - 23)

NoVersionNoHelp == ~opt.print_version /\ ~opt.print_help

\* C5 as stated: without --version and --help, an invalid format, n < 2, an
\* unknown type or hue lists of different lengths make main return 1 with no
\* driver called and nothing on standard output; a driver is only called
\* with n >= 2 and a buffer of 3n bytes.
C5_RejectsBeforeDriver ==
    /\ (NoVersionNoHelp
          /\ (opt.format = InvalidEnum \/ opt.n < 2 \/ opt.type = InvalidEnum
                \/ Len(opt.hue_values) # Len(opt.hue_positions)))
         => (call = <<>> /\ out = <<>> /\ (cpc = "exit" => exitcode = 1))
    /\ call # <<>> => (call.n >= 2 /\ call.buf = <<call.n, 0>>)
\* C5 witness: a driver was called with a buffer that does not hold 3n bytes.
C5_Witness ==
    /\ call # <<>>
    /\ call.n >= 2
    /\ call.buf # <<call.n, 0>>

\* the value main passes for parameter x when the user typed v for it
PassedWhenTyped(x, v) ==
    CASE x \in {"hue", "divergence"} -> deg_to_rad(v)
      [] x = "hue_values" -> [k \in 1..Len(v) |-> deg_to_rad(v[k])]
      [] OTHER -> v
\* the value main passes for parameter x of a map of the given type and
\* size when the user omitted it
PassedWhenOmitted(type, x, nn) ==
    CASE x = "contrast" /\ type \in {"brewer_seq", "brewer_div"} /\ nn <= 9 ->
           Fin(Min(88, 34 + 6 * nn))
      [] x = "hue_values" -> PUSequentialMultiHueDefaultHueValues
      [] x = "hue_positions" -> PUSequentialMultiHueDefaultHuePositions
      [] x = "color0" -> MorelandDefaultColor0
      [] x = "color1" -> MorelandDefaultColor1
      [] OTHER -> DefaultConstant(type, x)
\* the user omitted parameter x
IsOmitted(x) == IF x \in FloatParams THEN typed[x] = Omitted ELSE Len(typed[x]) = 0
\* the user typed a non-negative value for parameter x
IsNonNegative(x) ==
    IF x \in FloatParams THEN typed[x][1] = "fin" /\ typed[x][2] >= 0
    ELSE Len(typed[x]) > 0

\* C6 as amended: every parameter the called driver consumes is, if omitted,
\* the type's default constant -- except the contrast of brewer-sequential
\* and brewer-diverging maps of n <= 9 entries, which is
\* min(0.88, 0.34 + 0.06 n) -- and, if typed as a non-negative value, that
\* value, hues and divergences converted from degrees to radians.
C6_DefaultOrTypedValue ==
    call # <<>> =>
        \A x \in DOMAIN call.args :
            /\ IsOmitted(x) =>
                 call.args[x] = PassedWhenOmitted(call.type, x, call.n)
            /\ (~IsOmitted(x) /\ IsNonNegative(x)) =>
                 call.args[x] = PassedWhenTyped(x, typed[x])
\* C6 witness: brewer-sequential was called for n = 2 with the contrast
\* omitted and the saturation typed; the contrast passed is 0.46.
C6_Witness ==
    /\ call # <<>>
    /\ call.type = "brewer_seq"
    /\ call.n = 2
    /\ typed["contrast"] = Omitted
    /\ typed["saturation"] = Fin(50)
    /\ call.args["contrast"] = Fin(46)
    /\ call.args["saturation"] = Fin(50)
\* C6 as stated: an omitted float parameter is passed as the type's default
\* constant, a typed non-negative one unchanged.
C6_ConstantOrUnchanged ==
    call # <<>> =>
        \A x \in DOMAIN call.args \cap FloatParams :
            /\ IsOmitted(x) => call.args[x] = DefaultConstant(call.type, x)
            /\ (~IsOmitted(x) /\ IsNonNegative(x)) => call.args[x] = typed[x]

\* the entries of a PLQualitativeHue map computed so far
QualitativeHueEntries == {k \in DOMAIN ent : ent[k].by = "PLQualitativeHue"}

MostSaturatedReturned ==
    /\ result # <<>>
    /\ query.fn = "most_saturated_in_srgb"

\* C12: the sRGB triple most_saturated_in_srgb builds for a hue has
\* component j exactly 0 and another component k exactly 1, and the third
\* component, solved for, clamped and gamma-encoded, is a number in [0,1].
C12_TripleOnCubeSurface ==
    MostSaturatedReturned =>
        /\ result.j # result.k
        /\ result.i \notin {result.j, result.k}
        /\ result.srgb[result.j] = Fin(0)
        /\ result.srgb[result.k] = Fin(1000)
        /\ result.srgb[result.i][1] = "fin"
        /\ 0 <= result.srgb[result.i][2] /\ result.srgb[result.i][2] <= 1000
\* C12 witness: for a hue just past a corner the solved component came out
\* above 1 and was clamped; the triple has components 0, 1 and 1.
C12_Witness ==
    /\ MostSaturatedReturned
    /\ result.q1 # 0
    /\ Abs(result.q0) > Abs(result.q1)
    /\ result.srgb[result.i] = Fin(1000)
    /\ result.srgb[result.j] = Fin(0)

\* the corners that bound the sector of a branch: h[lo] <= hue < h[hi],
\* the first and the last branch lying between magenta and red
SectorLo(br) == IF br \in {1, 7} THEN 6 ELSE br - 1
SectorHi(br) == IF br \in {1, 7} THEN 1 ELSE br

\* C20: the corner hues ascend; a hue takes the one branch whose bounds
\* enclose it, hues below h[0] and from h[5] on getting the same assignment;
\* (i, j, k) is a permutation of {0, 1, 2}; and both corners that bound the
\* sector have component j = 0 and component k = 1.
C20_SectorsConsistent ==
    MostSaturatedReturned =>
        LET br == result.branch
        IN /\ \A c \in 1..5 : CornerHues[c] < CornerHues[c + 1]
           /\ br \in 1..7
           /\ br = 1 <=> query.hue < CornerHues[1]
           /\ br = 7 <=> query.hue >= CornerHues[6]
           /\ br \in 2..6 => (CornerHues[br - 1] <= query.hue /\ query.hue < CornerHues[br])
           /\ br \in {1, 7} => <<result.i, result.j, result.k>> = <<2, 1, 0>>
           /\ {result.i, result.j, result.k} = {0, 1, 2}
           /\ \A c \in {SectorLo(br), SectorHi(br)} :
                 /\ CubeCorners[c][result.j + 1] = 0
                 /\ CubeCorners[c][result.k + 1] = 1
\* C20 witness: the hue 2 pi took the last branch, the wrap-around sector.
C20_Witness ==
    /\ MostSaturatedReturned
    /\ query.hue = twopi
    /\ result.branch = 7
    /\ result.k = 0

\* a loop body has computed t
CellCenterReturned ==
    /\ result # <<>>
    /\ query.fn = "cell_center"

\* C17 as stated: for every n >= 1 and 0 <= i < n the float t = (i + 0.5) / n
\* lies strictly between 0 and 1 and is below the t of entry i + 1; and t of
\* entry i and of entry n - 1 - i sum to 1 (here: within 2^-23, checked for
\* the maps of up to 4 MaxN entries).
C17_StrictlyInsideAndIncreasing ==
    CellCenterReturned =>
        /\ result.t[1] > 0
        /\ DyLess(result.t, DyOne)
        /\ query.i + 1 < query.n =>
              DyLess(result.t, cell_center(query.i + 1, query.n))
        /\ query.n <= 4 * MaxN =>
              LET a == DyAlign(result.t, cell_center(query.n - 1 - query.i, query.n))
              IN Abs(a[1] + a[2] - 2^(a[3])) * 2^23 <= 2^(a[3])
\* C17 witness: the last entry of a map of 8388610 entries was computed at
\* t = 1.0f.
C17_Witness ==
    /\ CellCenterReturned
    /\ query.n = 8388610
    /\ query.i = query.n - 1
    /\ DyEq(result.t, DyOne)

\* the entries whose colour went through lch_to_luv
LchEntries == {k \in DOMAIN ent : ent[k].via = "lch"}

DivergingEntries == {k \in DOMAIN ent : ent[k].by = "BrewerDiverging"}

\* C19: in a BrewerDiverging map only an odd n has a special middle entry,
\* at index n / 2: for n <= 9 the neutral colour, whose lightness is the
\* mean of the lightness of the two paths at position 1, whose hue is that
\* of the bright point and whose chroma is at most lightness times s_max;
\* for n > 9 the average of the two paths at position 1.  Every other
\* entry is on the first path if i < n / 2 and on the second otherwise, at
\* a position short of 1.
C19_MiddleEntryOnlyForOddN ==
    \A k \in DivergingEntries :
        LET mid == n % 2 = 1 /\ k = n \div 2
            c0l == get_colormap_entry(10000, get_color_points(arg.p1l, arg.saturation, arg.warmth),
                                      arg.contrast, arg.brightness)
            c1l == get_colormap_entry(10000, get_color_points(arg.p1l1, arg.saturation, arg.warmth),
                                      arg.contrast, arg.brightness)
        IN /\ ent[k].kind = "neutral" <=> (mid /\ n <= 9)
           /\ ent[k].kind = "average" <=> (mid /\ n > 9)
           /\ ent[k].kind = "first" <=> (~mid /\ k < n \div 2)
           /\ ent[k].kind = "second" <=> (~mid /\ k >= n \div 2)
           /\ mid => /\ ent[k].lch[1] = (c0l + c1l) \div 2
                      /\ DyEq(ent[k].tt, DyOne)
           /\ ent[k].kind = "neutral" =>
                 /\ ent[k].lch[3] = BrightPointHue
                 /\ 100 * ent[k].lch[2] <= ent[k].lch[1] * s_max(ent[k].lch[1])
           /\ ~mid => DyLess(ent[k].tt, DyOne)
\* C19 witness: BrewerDiverging has returned a map of 11 entries whose
\* middle entry is the average, the others lying on the two paths.
C19_Witness ==
    /\ pc = "done"
    /\ drv = "BrewerDiverging"
    /\ n = 11
    /\ ent[5].kind = "average"
    /\ ent[4].kind = "first"
    /\ ent[6].kind = "second"

\* the distance of two LCH triples, component by component
LchNear(x, y, tol) == \A c \in 1..3 : Abs(x[c] - y[c]) <= tol

\* C18: a PLSequentialMultiHue map of n >= 2 entries starts at the start
\* point (l0, l0 s0, hue at position 0) and ends at the end point
\* (l1, l1 s1, hue at position 1), up to 0.05 in each component.
C18_EndpointsReproduced ==
    (pc = "done" /\ drv = "PLSequentialMultiHue") =>
        /\ LchNear(ent[0].lch, multi_hue_anchors(arg)[1], 5)
        /\ LchNear(ent[n - 1].lch, multi_hue_anchors(arg)[3], 5)
\* C18 witness: PLSequentialMultiHue has returned a map for the default hue
\* list; its first and last entry have the lightness and the hue of the
\* start and the end point, while the chroma of the first is more than 0.5
\* short of the start point's.
C18_Witness ==
    /\ pc = "done"
    /\ drv = "PLSequentialMultiHue"
    /\ arg = MultiHueDefaultArg
    /\ DyEq(ent[0].t, DyZero) /\ DyEq(ent[n - 1].t, DyOne)
    /\ ent[0].lch[1] = arg.l0 /\ ent[0].lch[3] = multi_hue_get(0, arg)
    /\ ent[n - 1].lch[1] = arg.l1 /\ ent[n - 1].lch[3] = multi_hue_get(10000, arg)
    /\ ent[0].lch[2] < multi_hue_anchors(arg)[1][2] - 50

\* C14: a static that has been set keeps its value and its initialiser does
\* not run again: pb, ylch, rs and h each are either as the process started
\* them or the one value their initialiser computes, every initialiser has
\* run at most once, and exactly when the static is set.  A call that needs
\* a static has it set: BrewerSequential and BrewerDiverging pb and h from
\* the start of their loop on, BrewerQualitative ylch and rs from the start
\* of its loop and h from its first entry on.
C14_StaticsSetOnce ==
    /\ cache.pb \in {Uncomputed, BrightPoint}
    /\ cache.ylch \in {Uncomputed, YellowLch}
    /\ cache.rs \in {-100, RedSaturation}
    /\ cache.h \in {<<>>, CornerHues}
    /\ cache.inits.pb = (IF cache.pb = BrightPoint THEN 1 ELSE 0)
    /\ cache.inits.ylch = (IF cache.ylch = YellowLch THEN 1 ELSE 0)
    /\ cache.inits.rs = (IF cache.rs = RedSaturation THEN 1 ELSE 0)
    /\ cache.inits.h = (IF cache.h = CornerHues THEN 1 ELSE 0)
    /\ (job # <<>> /\ job.name \in {"BrewerSequential", "BrewerDiverging"}) =>
          (cache.pb = BrightPoint /\ cache.h = CornerHues)
    /\ (job # <<>> /\ job.name = "BrewerQualitative") =>
          /\ cache.ylch = YellowLch /\ cache.rs = RedSaturation
          /\ order # <<>> => cache.h = CornerHues
\* C14 witness: the third call of the process is through its loop, and all
\* four statics are set.
C14_Witness ==
    /\ jobs = 3
    /\ job # <<>> /\ pending = {}
    /\ cache.pb = BrightPoint /\ cache.ylch = YellowLch
    /\ cache.rs = RedSaturation /\ cache.h = CornerHues

\* the entries of the running call in ascending order
InOrder == run_in_order(job, loop_start(job), 0)
\* the statics a driver has initialised when its loop starts
SetBeforeLoop(j) ==
    {x \in {"pb", "ylch", "rs", "h"} : j.start.inits[x] = 1}
AfterReset == sig.slot = "reset"
ulp(x) == <<1, fnorm(x)[2]>>
DyMin(x, y) == IF fleq(x, y) THEN x ELSE y
DyMax(x, y) == IF fleq(x, y) THEN y ELSE x
HueDiffDone == result # <<>> /\ query.fn = "hue_diff"
LightnessDone == result # <<>> /\ query.fn = "qualitative_lightness"
\* C21 as amended: hue_diff is symmetric and lies in [0, pi] for hues in
\* [0, 2 pi); in BrewerQualitative alpha lies in [0, 1], and the lightness
\* of an entry lies between l1 and l0 up to one unit in the last place of
\* l0 (the two products of the blend are rounded, so with l1 = l0 their sum
\* can miss l0 by one such unit).
C21_HueDiffFoldedLightnessWithinAnUlp ==
    /\ HueDiffDone =>
          /\ result.d = result.back
          /\ fleq(DyZero, result.d)
          /\ fleq(result.d, pi_float)
    /\ LightnessDone =>
          /\ fleq(DyZero, result.alpha)
          /\ fleq(result.alpha, DyOne)
          /\ fleq(fsub(DyMin(result.l0, result.l1), ulp(result.l0)), result.cl)
          /\ fleq(result.cl, fadd(DyMax(result.l0, result.l1), ulp(result.l0)))
\* C21 witness: with contrast 0.5 and brightness 0.8 an entry whose hue is pi
\* has a lightness strictly between l1 and l0.
C21_Witness ==
    /\ LightnessDone
    /\ query.ch = pi_float
    /\ query.contrast = flit(50, 100)
    /\ fless(result.l1, result.cl)
    /\ fless(result.cl, result.l0)
\* C21 as stated: the lightness of every entry lies between l1 and l0.
C21_LightnessBetween ==
    LightnessDone =>
        /\ fleq(DyMin(result.l0, result.l1), result.cl)
        /\ fleq(result.cl, DyMax(result.l0, result.l1))

UniformDone ==
    result # <<>> /\ query.fn \in {"PLSequentialLightness", "PLSequentialSaturation"}
\* solution k is valid and no valid solution has a smaller error
SmallestError(k) ==
    /\ result.valid[k]
    /\ ~result.errs[k].nan
    /\ \A j \in 1..4 :
          result.valid[j] /\ ~result.errs[j].nan
             => fleq(result.errs[k].v, result.errs[j].v)
\* C22 as stated: the chroma returned is the valid solution of the smallest
\* error (the one of lowest index on ties); with no valid solution it is the
\* average (C0 + C1) / 2; either way it lies in [min(C0, C1), max(C0, C1)].
C22_SmallestErrorInRange ==
    UniformDone =>
        /\ fleq(result.min_c, result.c) /\ fleq(result.c, result.max_c)
        /\ (\E k \in 1..4 : result.valid[k]) =>
               /\ result.index # -1
               /\ SmallestError(result.index + 1)
               /\ \A j \in 1..result.index : ~SmallestError(j)
               /\ result.c = result.cs[result.index + 1]
        /\ (\A k \in 1..4 : ~result.valid[k]) => result.index = -1
\* C22 witness: the first valid solution has a NaN for its error, a later
\* one has the error 0, and the first is returned.
C22_Witness ==
    /\ UniformDone
    /\ result.index # -1
    /\ result.errs[result.index + 1].nan
    /\ \E j \in 1..4 : result.valid[j] /\ ~result.errs[j].nan /\ result.errs[j].v = DyZero
    /\ result.c = result.cs[result.index + 1]

MultiHueGetDone == result # <<>> /\ query.fn = "multi_hue_get"
\* the positions of a hue list ascend (repeats allowed)
SortedPositions(a) ==
    \A k \in 1..(a.hues - 1) : a.hue_positions[k] <= a.hue_positions[k + 1]
\* C23: multi_hue_get returns 0 for no hue and hue_values[0] for one; for
\* two or more hues at ascending positions it returns hue_values[0] for t
\* <= hue_positions[0], hue_values[hues-1] for t >= hue_positions[hues-1],
\* and otherwise the interpolation over the segment i with hue_positions[i]
\* <= t < hue_positions[i+1]; it reads no index above hues - 1 and never
\* divides by a segment of width 0.
C23_MultiHueGetInterpolates ==
    MultiHueGetDone /\ SortedPositions(query.a) =>
      LET a == query.a
          t == query.t
      IN /\ result.reads \subseteq 0..(a.hues - 1)
         /\ result.width # 0
         /\ a.hues < 1 => result.hue = 0
         /\ a.hues = 1 => result.hue = a.hue_values[1]
         /\ a.hues >= 2 /\ t <= a.hue_positions[1] => result.hue = a.hue_values[1]
         /\ a.hues >= 2 /\ t > a.hue_positions[1] /\ t >= a.hue_positions[a.hues]
               => result.hue = a.hue_values[a.hues]
         /\ a.hues >= 2 /\ t > a.hue_positions[1] /\ t < a.hue_positions[a.hues]
               => /\ result.i \in 0..(a.hues - 2)
                  /\ a.hue_positions[result.i + 1] <= t
                  /\ t < a.hue_positions[result.i + 2]
                  /\ result.hue =
                       a.hue_values[result.i + 1]
                         + SDiv((t - a.hue_positions[result.i + 1])
                                  * (a.hue_values[result.i + 2] - a.hue_values[result.i + 1]),
                                a.hue_positions[result.i + 2] - a.hue_positions[result.i + 1])
\* C23 witness: with the positions 0.25, 0.25 and 0.75, t = 0.3 falls into
\* the last segment, past the one of width 0.
C23_Witness ==
    /\ MultiHueGetDone
    /\ query.a.hue_positions = <<2500, 2500, 7500>>
    /\ query.t = 3000
    /\ result.i = 1
    /\ result.width = 5000
    /\ result.hue = 1047 + SDiv(500 * (3142 - 1047), 5000)

ColorMatchingDone ==
    result # <<>> /\ query.fn \in {"color_matching_function", "PLSequentialBlackBody"}
\* C24: color_matching_function reads its table of 81 entries only at the
\* indices 0..80, for every integer lambda: it returns zero for lambda <
\* 380 or lambda > 780, the entry (lambda - 380) / 5 for a multiple of 5,
\* and otherwise interpolates the entries i and i + 1 <= 80; the
\* wavelengths PLSequentialBlackBody visits are multiples of 5, so it uses
\* exact entries or zero only.
C24_TableReadsInRange ==
    ColorMatchingDone =>
      LET lambda == query.lambda
          at == (lambda - 380) \div 5
      IN /\ Len(cmf_xyz) = 81
         /\ result.reads \subseteq 0..80
         /\ lambda < 380 \/ lambda > 780
               => result.xyz = <<0, 0, 0>> /\ result.reads = {}
         /\ lambda \in 380..780 /\ lambda % 5 = 0
               => /\ result.reads = {at}
                  /\ result.xyz = [c \in 1..3 |-> 5 * cmf_xyz[at + 1][c]]
         /\ lambda \in 380..780 /\ lambda % 5 # 0
               => /\ result.reads = {at, at + 1}
                  /\ at + 1 <= 80
                  /\ result.xyz = cmf_mix(lambda % 5, cmf_xyz[at + 1], cmf_xyz[at + 2])
         /\ query.fn = "PLSequentialBlackBody"
               => /\ lambda % 5 = 0
                  /\ Cardinality(result.reads) <= 1
\* C24 witness: the loop of PLSequentialBlackBody reaches 780 nm, where the
\* last entry of the table is read and no other.
C24_Witness ==
    /\ ColorMatchingDone
    /\ query.fn = "PLSequentialBlackBody"
    /\ query.lambda = 780
    /\ result.reads = {80}
    /\ result.xyz = <<210, 75, 0>>

DefaultContrastDone == result # <<>> /\ query.fn = "default_contrast"
\* C25: the contrast passed to a Brewer sequential or diverging map when
\* none was given is min(0.88, 0.34 + 0.06 n) for n <= 9 and 0.88 for n >
\* 9; for n >= 2 it does not decrease with n, never exceeds 0.88, and is
\* the same for n = 9 and n = 10.
C25_DefaultContrastMonotone ==
    DefaultContrastDone =>
      /\ query.n <= 9
            => result.contrast = flit(Min(88, 34 + 6 * query.n), 100)
      /\ query.n > 9 => result.contrast = flit(88, 100)
      /\ fleq(result.contrast, flit(88, 100))
      /\ fleq(result.contrast, default_contrast_float(query.type, query.n + 1))
      /\ query.n = 9
            => result.contrast = default_contrast_float(query.type, 10)
\* C25 witness: the default for nine colours is computed from 0.34f +
\* 0.06f * 9 and is 0.88f, the constant used from ten colours on.
C25_Witness ==
    /\ DefaultContrastDone
    /\ query.n = 9
    /\ query.type = "brewer_div"
    /\ result.contrast = flit(88, 100)
    /\ fadd(flit(34, 100), fmul(flit(6, 100), <<int_to_float(9), 0>>)) = flit(88, 100)

\* the members thread t read are those of the initialised static
ObtainedInitialised(t) ==
    \A k \in 1..Len(static_reads(threads.static)) :
       threads.got[t][static_reads(threads.static)[k]]
         = static_value(threads.static)[static_reads(threads.static)[k]]
\* C26: two threads that make the first call of get_bright_point at once,
\* without a lock, both obtain the initialised bright point: none sees pb.l
\* set while pb.u or pb.v is still -1; the same for the static ylch of
\* BrewerQualitative.
C26_BothObtainInitialised ==
    threads # <<>> =>
      \A t \in Threads : threads.pc[t] = "done" => ObtainedInitialised(t)
\* C26 witness: the second thread made its test after the first had stored
\* pb.l and returns a bright point whose u and v are still -1.
C26_Witness ==
    /\ threads # <<>>
    /\ threads.static = "pb"
    /\ threads.pc[2] = "done"
    /\ threads.got[2] = <<BrightPointL, -100, -100>>
    /\ threads.pc[1] = "assign"
    /\ threads.mem[1] = BrightPointL

\* entry k of the buffer is entry at of the count-entry map `map` for hue
EntryOf(k, map, count, at, hue) ==
    ent[k].src = [map |-> map, count |-> count, index |-> at, hue |-> hue]
\* the entry a copy loop is about to read is the one the first call stored
\* there: no earlier round of the loop has put another entry in its place
ReadsWhatFirstCallStored(s0) ==
    /\ (s0 \div 3) \in DOMAIN ent
    /\ ent[s0 \div 3].src = computed_as(drv, 1, sub, (s0 - sub.base) \div 3)
\* C27: when PLDivergingLightness has returned, entries 0..lowerN-1 are the
\* lowerN-entry sequential lightness map for hue in index order and entry
\* lowerN+k is entry higherN-1-k of the higherN-entry map for hue +
\* divergence; when PLDivergingSaturation has returned, entry k < lowerN is
\* entry lowerN-1-k of the lowerN-entry sequential saturation map for hue
\* and entries lowerN..n-1 are the higherN-entry map for hue + divergence;
\* no copy loop reads an entry it has overwritten with a different one.
C27_HalvesMirrored ==
    LET lowerN == n \div 2
        higherN == n - lowerN
    IN /\ pc = "done" /\ drv = "PLDivergingLightness" =>
            /\ \A k \in 0..(lowerN - 1) :
                  EntryOf(k, "PLSequentialLightness", lowerN, k, "hue")
            /\ \A k \in 0..(higherN - 1) :
                  EntryOf(lowerN + k, "PLSequentialLightness", higherN,
                          higherN - 1 - k, "hue + divergence")
       /\ pc = "done" /\ drv = "PLDivergingSaturation" =>
            /\ \A k \in 0..(lowerN - 1) :
                  EntryOf(k, "PLSequentialSaturation", lowerN,
                          lowerN - 1 - k, "hue")
            /\ \A k \in 0..(higherN - 1) :
                  EntryOf(lowerN + k, "PLSequentialSaturation", higherN, k,
                          "hue + divergence")
       /\ pc = "copy" /\ drv = "PLDivergingLightness" /\ i < higherN =>
            ReadsWhatFirstCallStored(mirror_src_lightness(lowerN, higherN, i, 0))
       /\ pc = "copy" /\ drv = "PLDivergingSaturation" /\ i < lowerN =>
            ReadsWhatFirstCallStored(mirror_src_saturation(lowerN, higherN, i, 0))
\* C27 witness: a returned PLDivergingLightness map of three entries, whose
\* middle entry the copy loop read and wrote in one round.
C27_Witness ==
    /\ pc = "done"
    /\ drv = "PLDivergingLightness"
    /\ n = 3
    /\ EntryOf(0, "PLSequentialLightness", 1, 0, "hue")
    /\ EntryOf(1, "PLSequentialLightness", 2, 1, "hue + divergence")
    /\ EntryOf(2, "PLSequentialLightness", 2, 0, "hue + divergence")

MixHueDone == result # <<>> /\ query.fn = "mix_hue"
\* C28: for h0 and h1 in [0, 2 pi) the offset M = fmod(pi + h1 - h0, 2 pi)
\* - pi of mix_hue lies in [-pi, pi), so that mix_hue moves from h0 to h1
\* along the shortest arc: mix_hue(0, h0, h1) is h0, mix_hue(1, h0, h1) is
\* h1 modulo 2 pi, and |M| never exceeds pi.
C28_OffsetWithinHalfTurn ==
    MixHueDone =>
      /\ result.M >= -pi
      /\ result.M < pi
      /\ Abs(result.M) <= pi
      /\ query.alpha = 0 => result.hue = query.h0
      /\ query.alpha = 100 => (result.hue - query.h1) % twopi = 0
\* C28 witness: from the hue 5.5 to the hue of the bright point, 1.499, the
\* offset is -4.001, more than half a turn, and mix_hue(0.15, ...) is 4.9.
C28_Witness ==
    /\ MixHueDone
    /\ query.h0 = 5500
    /\ query.h1 = BrightPointHue
    /\ query.alpha = 15
    /\ result.M = -4001
    /\ result.hue = 4900

ControlSlotDone == sig # <<>> /\ sig.slot \in {"spinboxChanged", "sliderChanged"}
\* the spin box shows the number of the slider's position
Agree(c, k, at) == k = c.lo + at
\* C29: a change of the slider by the user updates the spin box, and the
\* other way round, without a feedback loop: the slot run by the update
\* finds _update_lock set and does nothing, valueChanged is emitted once
\* per change and when both controls agree, setValue() emits no
\* valueChanged, and _update_lock is false when no slot runs.
C29_OneSignalWhenControlsAgree ==
    /\ ControlSlotDone =>
         /\ sig.control.lock = FALSE
         /\ sig.control.suppressed <= 1
         /\ Len(sig.control.emitted) = 1
         /\ sig.control.emitted[1] = <<sig.control.spin, sig.control.slider>>
         /\ Agree(ControlOf(gui, sig.name), sig.control.spin, sig.control.slider)
    /\ sig # <<>> /\ sig.slot = "reset" =>
         \A c \in DOMAIN sig.set :
            sig.set[c].emitted = << >> /\ sig.set[c].lock = FALSE
\* the part of C29 about the lock and the signal, without the agreement
LockProtocolHolds ==
    /\ ControlSlotDone =>
         /\ sig.control.lock = FALSE
         /\ sig.control.suppressed <= 1
         /\ Len(sig.control.emitted) = 1
         /\ sig.control.emitted[1] = <<sig.control.spin, sig.control.slider>>
    /\ sig # <<>> /\ sig.slot = "reset" =>
         \A c \in DOMAIN sig.set :
            sig.set[c].emitted = << >> /\ sig.set[c].lock = FALSE
\* C29 witness: the user has set the spin box of the lightness range to
\* 0.71; spinboxChanged() moved the slider from its place to 0, not to 1,
\* the slot run by that move found the lock set, and valueChanged was
\* emitted once.
C29_Witness ==
    /\ ControlSlotDone
    /\ sig.slot = "spinboxChanged"
    /\ sig.name = "lightness_range"
    /\ sig.control.spin = 71
    /\ sig.control.slider = 0
    /\ sig.control.suppressed = 1
    /\ Len(sig.control.emitted) = 1
    /\ ~sig.control.lock

MultiHueWidget == gui # <<>> /\ gui.w = "PUSequentialMultiHue"
\* C30: after any sequence of reset(), addHue() and removeHue() the hue
\* list of the multi-hue widget holds pairwise distinct positions in
\* ascending order; addHue() with a position that is present replaces the
\* item; the arrays hue_values and hue_positions of parameters() have the
\* same length, which may be 0.
C30_HuePositionsAscendDistinct ==
    MultiHueWidget =>
      LET a == hue_arrays(gui)
      IN /\ Len(a.hue_values) = Len(a.hue_positions)
         /\ \A k \in 1..(Len(a.hue_positions) - 1) :
               a.hue_positions[k] < a.hue_positions[k + 1]
         /\ sig.slot = "addHue" =>
               /\ Cardinality({k \in 1..Len(gui.list) : gui.list[k][2] = gui.pos}) = 1
               /\ \E k \in 1..Len(gui.list) : gui.list[k] = <<gui.button, gui.pos>>
\* C30 witness: addHue() at 0.25, where the list had an item: the list
\* still has two items, at 0.25 and 0.75.
C30_Witness ==
    /\ MultiHueWidget
    /\ sig.slot = "addHue"
    /\ gui.pos = 250
    /\ Len(gui.list) = 2
    /\ hue_arrays(gui).hue_positions = <<250, 750>>
    /\ item_text(gui.list[1]) = <<48, 46, 50, 53>>

====
